---- MODULE Spec2Model ----
(***************************************************************************)
(* Model of the hass-neakasa integration's concurrency core:               *)
(*   - ValueCacher (value_cacher.py): time-windowed cache with a lock and  *)
(*     an in-flight task handle;                                           *)
(*   - the shared API registry (__init__.py): get_shared_api,              *)
(*     clear_shared_api, force_reconnect_api over the module-level maps    *)
(*     _shared_apis and _shared_locks;                                     *)
(*   - APIEncryption (api_encryption.py): zero padding, encrypt/decrypt    *)
(*     and decodeLoginToken;                                               *)
(*   - NeakasaCoordinator.async_update_data (coordinator.py): one poll     *)
(*     tick over the two cache slots of a coordinator.                     *)
(* Scheduling is asyncio's: one coroutine runs at a time and control       *)
(* changes hands only at an await that really suspends (a held lock, a     *)
(* task, a network call).  Each action below is one such run-to-suspension *)
(* segment of the code.                                                    *)
(***************************************************************************)
EXTENDS Integers, Sequences, FiniteSets, TLC

\* ------------------------------------------------------------------ bounds
\* The clock runs from 0 to MaxTime.
MaxTime == 3
\* A positive refresh window and a positive discard window, in clock ticks.
RefreshWindow == 1
DiscardWindow == 2

\* The coroutines that call into a cache slot or into the registry.
Procs == {1, 2}
\* Results a fetch can produce (never None: the fetches return API payloads).
Values == {"a", "b"}
Slots == {"slot"}

\* Optional[T]: None is the empty sequence, a present value x is <<x>>.
None == <<>>
Some(x) == <<x>>

VARIABLES
  \* ---- ValueCacher fields, per slot
  refresh_after, discard_after, manually_marked_stale, value, last_update,
  lock, inflight,
  \* ---- datetime.now()
  now,
  \* ---- get_or_update callers
  cpc, cslot, task, awaiting,
  \* ---- history of the cache (observations only, never read by the code)
  ccall, markPending, fetchedOK, ev,
  \* ---- registry: _shared_apis, _shared_locks, lock objects, sessions
  shared_apis, shared_locks, lockq, connected, iotToken,
  \* ---- registry callers
  rpc, rkey, rlock, rapi, nextSession,
  \* ---- history of the registry (observations only)
  rcall, cleared, reusedSess, rev,
  \* ---- APIEncryption: the cipher's fields and the call being observed
  enc,
  \* ---- NeakasaCoordinator: the running async_update_data calls, the
  \*      coordinator's fields, and the last step's end of a tick (history)
  tk, co, tev,
  \* ---- config entries: hass.data[DOMAIN], where each entry's setup or
  \*      unload is suspended, and the last step's registry clear (history)
  hass_data, epc, lev,
  \* ---- the coordinator's callers followed into the registry: what each
  \*      is in (a poll tick, setProperty, invokeService) and where it stands
  job

cacheVars == <<refresh_after, discard_after, manually_marked_stale, value,
               last_update, lock, inflight, now, cpc, cslot, task, awaiting,
               ccall, markPending, fetchedOK, ev>>
regVars == <<shared_apis, shared_locks, lockq, connected, iotToken,
             rpc, rkey, rlock, rapi, nextSession, rcall, cleared, reusedSess,
             rev>>
cipherVars == <<enc>>
tickVars == <<tk, co, tev>>
entryVars == <<hass_data, epc, lev>>
liveVars == <<job>>
vars == <<cacheVars, regVars, cipherVars, tickVars, entryVars, liveVars>>

\* =====================================================================
\*  ValueCacher
\* =====================================================================

NoTask == [state |-> "none", result |-> None]
\* History of one call: the call whose fetch ran on the empty slot when this
\* one started (overlap) and how that call ended (first); whether a
\* mark_as_stale preceded it with no call in between (mustFetch); the value a
\* successful fetch had cached when it started (sawFetched).
NoCall == [overlap |-> None, first |-> "none", firstVal |-> None,
           mustFetch |-> FALSE, sawFetched |-> None]
\* The last step's return from get_or_update, if it was one: who returned,
\* by which path, what, and the history of that call.
NoEv == [proc |-> 0, via |-> "none", val |-> None, call |-> NoCall]
Returned(p, how, v, c) == [proc |-> p, via |-> how, val |-> v, call |-> c]

\* value_if_not_stale with the zero-window test written "<" instead of "<=".
value_if_not_stale_lt(s) ==
  IF manually_marked_stale[s] \/ value[s] = None \/ last_update[s] = None
  THEN None
  ELSE IF refresh_after[s] # None
          /\ (refresh_after[s][1] < 0
              \/ now - last_update[s][1] > refresh_after[s][1])
       THEN None
       ELSE value[s]

value_if_not_stale(s) ==
  IF manually_marked_stale[s] \/ value[s] = None \/ last_update[s] = None
  THEN None
  ELSE IF refresh_after[s] # None
          /\ (refresh_after[s][1] <= 0
              \/ now - last_update[s][1] > refresh_after[s][1])
       THEN None
       ELSE value[s]

\* value_if_not_discarded that also honours the manual-stale flag.
value_if_not_discarded_stale(s) ==
  IF manually_marked_stale[s] \/ value[s] = None \/ last_update[s] = None
  THEN None
  ELSE IF discard_after[s] # None
          /\ (discard_after[s][1] <= 0
              \/ now - last_update[s][1] > discard_after[s][1])
       THEN None
       ELSE value[s]

value_if_not_discarded(s) ==
  IF value[s] = None \/ last_update[s] = None
  THEN None
  ELSE IF discard_after[s] # None
          /\ (discard_after[s][1] <= 0
              \/ now - last_update[s][1] > discard_after[s][1])
       THEN None
       ELSE value[s]

\* set() that forgets the timestamp.
set_no_timestamp(s, v) ==
  /\ value' = [value EXCEPT ![s] = Some(v)]
  /\ last_update' = last_update
  /\ manually_marked_stale' = [manually_marked_stale EXCEPT ![s] = FALSE]

\* set() that leaves the manual-stale flag alone.
set_keep_flag(s, v) ==
  /\ value' = [value EXCEPT ![s] = Some(v)]
  /\ last_update' = [last_update EXCEPT ![s] = Some(now)]
  /\ manually_marked_stale' = manually_marked_stale

set(s, v) ==
  /\ value' = [value EXCEPT ![s] = Some(v)]
  /\ last_update' = [last_update EXCEPT ![s] = Some(now)]
  /\ manually_marked_stale' = [manually_marked_stale EXCEPT ![s] = FALSE]

clear(s) ==
  /\ value' = [value EXCEPT ![s] = None]
  /\ last_update' = [last_update EXCEPT ![s] = None]
  /\ manually_marked_stale' = [manually_marked_stale EXCEPT ![s] = FALSE]

mark_as_stale(s) ==
  /\ manually_marked_stale' = [manually_marked_stale EXCEPT ![s] = TRUE]
  /\ UNCHANGED <<value, last_update>>

\* A lock that its holder keeps.
Release_never(q, p) == q

\* asyncio.Lock as a FIFO queue whose head is the holder: acquire() returns
\* at once when the queue is empty, and release() hands the lock to the
\* first waiter.
Release(q, p) == IF q # <<>> /\ Head(q) = p THEN Tail(q) ELSE q

\* The body of "async with self._lock", run by p once it holds the lock;
\* lk is the lock queue with p at its head, c the history of the call.
LockedSection(p, s, lk, c) ==
  IF value_if_not_stale(s) # None
  THEN \* re-check under lock: return current
       /\ ev' = Returned(p, "recheck", value_if_not_stale(s), c)
       /\ ccall' = [ccall EXCEPT ![p] = NoCall]
       /\ cpc' = [cpc EXCEPT ![p] = "idle"]
       /\ lock' = [lock EXCEPT ![s] = Release(lk, p)]
       /\ UNCHANGED <<inflight, task, awaiting>>
  ELSE IF inflight[s] # None
  THEN \* await self._inflight (a task another call created)
       /\ awaiting' = [awaiting EXCEPT ![p] = inflight[s]]
       /\ cpc' = [cpc EXCEPT ![p] = "await_inflight"]
       /\ lock' = [lock EXCEPT ![s] = lk]
       /\ ccall' = [ccall EXCEPT ![p] = c]
       /\ ev' = NoEv
       /\ UNCHANGED <<inflight, task>>
  ELSE \* self._inflight = loop.create_task(update_func())
       /\ inflight' = [inflight EXCEPT ![s] = Some(p)]
       /\ task' = [task EXCEPT ![p] = [state |-> "running", result |-> None]]
       /\ cpc' = [cpc EXCEPT ![p] = "await_task"]
       /\ lock' = [lock EXCEPT ![s] = lk]
       /\ ccall' = [ccall EXCEPT ![p] = c]
       /\ ev' = NoEv
       /\ UNCHANGED awaiting

\* A get_or_update without lock and in-flight handle: every call that misses
\* the fast path starts its own fetch.
SlowPathNoLock(p, s, c) ==
  /\ task' = [task EXCEPT ![p] = [state |-> "running", result |-> None]]
  /\ cpc' = [cpc EXCEPT ![p] = "await_task"]
  /\ ccall' = [ccall EXCEPT ![p] = c]
  /\ ev' = NoEv
  /\ UNCHANGED <<inflight, lock, awaiting>>

\* "async with self._lock:" reached after the fast path missed.
SlowPath(p, s, c) ==
  IF lock[s] = <<>>
  THEN LockedSection(p, s, <<p>>, c)
  ELSE /\ lock' = [lock EXCEPT ![s] = Append(lock[s], p)]
       /\ cpc' = [cpc EXCEPT ![p] = "wait_lock"]
       /\ ccall' = [ccall EXCEPT ![p] = c]
       /\ ev' = NoEv
       /\ UNCHANGED <<inflight, task, awaiting>>

\* What a call starting on slot s finds (history only).
CallFinds(s) ==
  [overlap |-> IF value[s] = None /\ inflight[s] # None
                  /\ task[inflight[s][1]].state = "running"
               THEN inflight[s] ELSE None,
   first |-> "none", firstVal |-> None,
   mustFetch |-> markPending[s],
   sawFetched |-> fetchedOK[s]]

\* A caller enters get_or_update(update_func) on slot s.
GetOrUpdate(p, s) ==
  /\ cpc[p] = "idle"
  /\ cslot' = [cslot EXCEPT ![p] = s]
  /\ markPending' = [markPending EXCEPT ![s] = FALSE]
  /\ IF value_if_not_stale(s) # None
     THEN \* fast path
          /\ ev' = Returned(p, "fast", value_if_not_stale(s), CallFinds(s))
          /\ UNCHANGED <<cpc, lock, inflight, task, awaiting, ccall>>
     ELSE SlowPath(p, s, CallFinds(s))
  /\ UNCHANGED <<refresh_after, discard_after, manually_marked_stale, value,
                 last_update, now, fetchedOK>>
  /\ UNCHANGED <<regVars, cipherVars, tickVars, entryVars, liveVars>>

\* A caller that waited for the lock is handed it and runs the locked body.
LockGranted(p) ==
  /\ cpc[p] = "wait_lock"
  /\ lock[cslot[p]] # <<>> /\ Head(lock[cslot[p]]) = p
  /\ LockedSection(p, cslot[p], lock[cslot[p]], ccall[p])
  /\ UNCHANGED <<refresh_after, discard_after, manually_marked_stale, value,
                 last_update, now, cslot, markPending, fetchedOK>>
  /\ UNCHANGED <<regVars, cipherVars, tickVars, entryVars, liveVars>>

\* update_func() finishes: it returns a payload or raises.
FetchReturns(p, v) ==
  /\ task[p].state = "running"
  /\ task' = [task EXCEPT ![p] = [state |-> "ok", result |-> Some(v)]]
  /\ ev' = NoEv
  /\ UNCHANGED <<refresh_after, discard_after, manually_marked_stale, value,
                 last_update, lock, inflight, now, cpc, cslot, awaiting,
                 ccall, markPending, fetchedOK>>
  /\ UNCHANGED <<regVars, cipherVars, tickVars, entryVars, liveVars>>

FetchRaises(p) ==
  /\ task[p].state = "running"
  /\ task' = [task EXCEPT ![p] = [state |-> "err", result |-> None]]
  /\ ev' = NoEv
  /\ UNCHANGED <<refresh_after, discard_after, manually_marked_stale, value,
                 last_update, lock, inflight, now, cpc, cslot, awaiting,
                 ccall, markPending, fetchedOK>>
  /\ UNCHANGED <<regVars, cipherVars, tickVars, entryVars, liveVars>>

\* The calls that started while p's fetch ran on an empty slot learn how p's
\* call ended (history only); p's own history ends with its call.
NoteFirst(p, how, v) ==
  [q \in Procs |->
     IF q = p THEN NoCall
     ELSE IF ccall[q].overlap = Some(p) /\ ccall[q].first = "none"
     THEN [ccall[q] EXCEPT !.first = how, !.firstVal = v]
     ELSE ccall[q]]

\* A get_or_update without "finally": a failed attempt leaves the in-flight
\* handle set.
AwaitReturns_no_finally(p) ==
  LET s == cslot[p]
      own == cpc[p] = "await_task"
      t == IF own THEN task[p] ELSE task[awaiting[p][1]]
      fallback == value_if_not_discarded(s)
      how == IF t.state = "ok" THEN (IF own THEN "fetch" ELSE "shared")
             ELSE IF fallback # None
                  THEN (IF own THEN "fallback" ELSE "shared_fallback")
                  ELSE (IF own THEN "raise" ELSE "shared_raise")
      v == IF t.state = "ok" THEN t.result ELSE fallback
  IN
  /\ cpc[p] \in {"await_task", "await_inflight"}
  /\ t.state \in {"ok", "err"}
  /\ IF own /\ t.state = "ok"
     THEN /\ set(s, t.result[1])
          /\ fetchedOK' = [fetchedOK EXCEPT ![s] = t.result]
     ELSE UNCHANGED <<value, last_update, manually_marked_stale, fetchedOK>>
  /\ ev' = Returned(p, how, v, ccall[p])
  /\ ccall' = NoteFirst(p, how, v)
  /\ IF own /\ t.state = "ok"
     THEN /\ inflight' = [inflight EXCEPT ![s] = None]
          /\ task' = [task EXCEPT ![p] = NoTask]
     ELSE UNCHANGED <<inflight, task>>
  /\ awaiting' = [awaiting EXCEPT ![p] = None]
  /\ cpc' = [cpc EXCEPT ![p] = "idle"]
  /\ lock' = [lock EXCEPT ![s] = Release(lock[s], p)]
  /\ UNCHANGED <<refresh_after, discard_after, now, cslot, markPending>>
  /\ UNCHANGED <<regVars, cipherVars, tickVars, entryVars, liveVars>>

\* "await self._inflight" returns in the call that created the task, or in
\* a call that found the handle set; except/finally and the release of
\* the lock at the end of "async with" are part of the same segment.
AwaitReturns(p) ==
  LET s == cslot[p]
      own == cpc[p] = "await_task"
      t == IF own THEN task[p] ELSE task[awaiting[p][1]]
      fallback == value_if_not_discarded(s)
      how == IF t.state = "ok" THEN (IF own THEN "fetch" ELSE "shared")
             ELSE IF fallback # None
                  THEN (IF own THEN "fallback" ELSE "shared_fallback")
                  ELSE (IF own THEN "raise" ELSE "shared_raise")
      v == IF t.state = "ok" THEN t.result ELSE fallback
  IN
  /\ cpc[p] \in {"await_task", "await_inflight"}
  /\ t.state \in {"ok", "err"}
  /\ IF own /\ t.state = "ok"
     THEN /\ set(s, t.result[1])
          /\ fetchedOK' = [fetchedOK EXCEPT ![s] = t.result]
     ELSE UNCHANGED <<value, last_update, manually_marked_stale, fetchedOK>>
  /\ ev' = Returned(p, how, v, ccall[p])
  /\ ccall' = NoteFirst(p, how, v)
  /\ IF own
     THEN /\ inflight' = [inflight EXCEPT ![s] = None]
          /\ task' = [task EXCEPT ![p] = NoTask]
     ELSE UNCHANGED <<inflight, task>>
  /\ awaiting' = [awaiting EXCEPT ![p] = None]
  /\ cpc' = [cpc EXCEPT ![p] = "idle"]
  /\ lock' = [lock EXCEPT ![s] = Release(lock[s], p)]
  /\ UNCHANGED <<refresh_after, discard_after, now, cslot, markPending>>
  /\ UNCHANGED <<regVars, cipherVars, tickVars, entryVars, liveVars>>

\* set(), clear() and mark_as_stale() called from outside get_or_update.
CallSet(s, v) ==
  /\ set(s, v)
  /\ markPending' = [markPending EXCEPT ![s] = FALSE]
  /\ fetchedOK' = [fetchedOK EXCEPT ![s] =
                     IF fetchedOK[s] # None THEN Some(v) ELSE None]
  /\ ev' = NoEv
  /\ UNCHANGED <<refresh_after, discard_after, lock, inflight, now, cpc,
                 cslot, task, awaiting, ccall>>
  /\ UNCHANGED <<regVars, cipherVars, tickVars, entryVars, liveVars>>

CallClear(s) ==
  /\ clear(s)
  /\ markPending' = [markPending EXCEPT ![s] = FALSE]
  /\ fetchedOK' = [fetchedOK EXCEPT ![s] = None]
  /\ ev' = NoEv
  /\ UNCHANGED <<refresh_after, discard_after, lock, inflight, now, cpc,
                 cslot, task, awaiting, ccall>>
  /\ UNCHANGED <<regVars, cipherVars, tickVars, entryVars, liveVars>>

CallMarkAsStale(s) ==
  /\ mark_as_stale(s)
  /\ markPending' = [markPending EXCEPT ![s] = TRUE]
  /\ fetchedOK' = [fetchedOK EXCEPT ![s] = None]
  /\ ev' = NoEv
  /\ UNCHANGED <<refresh_after, discard_after, lock, inflight, now, cpc,
                 cslot, task, awaiting, ccall>>
  /\ UNCHANGED <<regVars, cipherVars, tickVars, entryVars, liveVars>>

\* datetime.now(timezone.utc) advances.
Tick ==
  /\ now < MaxTime
  /\ now' = now + 1
  /\ ev' = NoEv
  /\ UNCHANGED <<refresh_after, discard_after, manually_marked_stale, value,
                 last_update, lock, inflight, cpc, cslot, task, awaiting,
                 ccall, markPending, fetchedOK>>
  /\ UNCHANGED <<regVars, cipherVars, tickVars, entryVars, liveVars>>

\* Windows a slot can be built with: None, zero, positive.
RefreshChoices == {None, Some(0), Some(RefreshWindow)}
DiscardChoices == {None, Some(0), Some(DiscardWindow)}

\* The registry is not part of this specification.
RegIdle ==
  /\ shared_apis = <<>> /\ shared_locks = <<>> /\ lockq = <<>>
  /\ connected = <<>> /\ iotToken = <<>>
  /\ rpc = <<>> /\ rkey = <<>> /\ rlock = <<>> /\ rapi = <<>>
  /\ nextSession = 0 /\ rcall = <<>> /\ cleared = <<>>
  /\ reusedSess = <<>> /\ rev = <<>>

\* The cipher and the coordinator are not part of this specification.
CipherIdle == enc = <<>>
TickIdle == tk = <<>> /\ co = <<>> /\ tev = <<>>
EntryIdle == hass_data = <<>> /\ epc = <<>> /\ lev = <<>>
\* No caller is followed from the coordinator into the registry.
LiveIdle == job = <<>>

\* ValueCacher.__init__: an empty slot, built with any pair of windows.
CacheInit ==
  /\ refresh_after \in [Slots -> RefreshChoices]
  /\ discard_after \in [Slots -> DiscardChoices]
  /\ manually_marked_stale = [s \in Slots |-> FALSE]
  /\ value = [s \in Slots |-> None]
  /\ last_update = [s \in Slots |-> None]
  /\ lock = [s \in Slots |-> <<>>]
  /\ inflight = [s \in Slots |-> None]
  /\ now = 0
  /\ cpc = [p \in Procs |-> "idle"]
  /\ cslot = [p \in Procs |-> CHOOSE s \in Slots : TRUE]
  /\ task = [p \in Procs |-> NoTask]
  /\ awaiting = [p \in Procs |-> None]
  /\ ccall = [p \in Procs |-> NoCall]
  /\ markPending = [s \in Slots |-> FALSE]
  /\ fetchedOK = [s \in Slots |-> None]
  /\ ev = NoEv

InitCache == CacheInit /\ RegIdle /\ CipherIdle /\ TickIdle /\ EntryIdle /\ LiveIdle

NextCache ==
  \/ \E p \in Procs, s \in Slots : GetOrUpdate(p, s)
  \/ \E p \in Procs : LockGranted(p)
  \/ \E p \in Procs, v \in Values : FetchReturns(p, v)
  \/ \E p \in Procs : FetchRaises(p)
  \/ \E p \in Procs : AwaitReturns(p)
  \/ \E s \in Slots, v \in Values : CallSet(s, v)
  \/ \E s \in Slots : CallClear(s)
  \/ \E s \in Slots : CallMarkAsStale(s)
  \/ Tick

SpecCache == InitCache /\ [][NextCache]_vars

\* ---------------------------------------------------------------------
\*  Properties of the ValueCacher (checked under SpecCache)
\* ---------------------------------------------------------------------

IsReturn == ev.via # "none"
OwnFetchVias == {"fetch", "fallback", "raise"}
RaiseVias == {"raise", "shared_raise"}

\* C1: a get_or_update call that starts while another call's fetch is running
\* on a slot with no cached value never invokes the fetch function itself,
\* and returns what that other call returned (the same value, or both raise).
C1_OverlappingCallsShareOneFetch ==
  /\ \A q \in Procs : ccall[q].overlap # None => task[q].state = "none"
  /\ (IsReturn /\ ev.call.overlap # None) =>
        /\ ev.via \notin OwnFetchVias
        /\ ev.call.first # "none"
        /\ (ev.via \in RaiseVias) <=> (ev.call.first \in RaiseVias)
        /\ ev.val = ev.call.firstVal

\* C2: in every reachable state, at most one fetch task is running per slot.
C2_SingleFlight ==
  \A s \in Slots :
    Cardinality({p \in Procs : cslot[p] = s /\ task[p].state = "running"}) <= 1

\* A fetch is running while the other caller waits for the slot's lock.
C2_Witness ==
  \E p \in Procs, q \in Procs :
    /\ p # q /\ cslot[p] = cslot[q]
    /\ task[p].state = "running"
    /\ cpc[q] = "wait_lock"

\* C7: the first get_or_update call that starts after mark_as_stale() never
\* returns through a freshness check (fast path or re-check under the lock).
C7_MarkAsStaleForcesFetch ==
  (IsReturn /\ ev.call.mustFetch) => ev.via \notin {"fast", "recheck"}

\* Age of the cached value of slot s (the slot holds one).
Age(s) == now - last_update[s][1]

\* C8 as stated: after a failed fetch the call returns the cached value iff one
\* is present and (no discard window is configured or its age does not exceed
\* the window); otherwise it raises.
C8_FallbackIffAgeWithinWindow ==
  (IsReturn /\ ev.via \in {"fallback", "raise"}) =>
     LET s == cslot[ev.proc]
         usable == /\ value[s] # None
                   /\ (discard_after[s] = None \/ Age(s) <= discard_after[s][1])
     IN /\ (ev.via = "fallback") <=> usable
        /\ (ev.via = "fallback") => ev.val = value[s]

\* C8 amended: after a failed fetch the call returns the cached value iff one
\* is present and (no discard window is configured, or the window is greater
\* than zero and the value's age does not exceed it), whatever the
\* manual-stale flag; otherwise it raises.
C8_FallbackIffWithinPositiveWindow ==
  (IsReturn /\ ev.via \in {"fallback", "raise"}) =>
     LET s == cslot[ev.proc]
         usable == /\ value[s] # None
                   /\ \/ discard_after[s] = None
                      \/ /\ discard_after[s][1] > 0
                         /\ Age(s) <= discard_after[s][1]
     IN /\ (ev.via = "fallback") <=> usable
        /\ (ev.via = "fallback") => ev.val = value[s]

\* A refetch forced by mark_as_stale failed inside a positive discard window
\* and the call returned the previous value.
C8_Witness ==
  /\ ev.via = "fallback"
  /\ ev.call.mustFetch
  /\ manually_marked_stale[cslot[ev.proc]]
  /\ discard_after[cslot[ev.proc]] = Some(DiscardWindow)

\* C9: a slot built with refresh_after = 0 is never fresh: value_if_not_stale
\* returns None in every state, and no get_or_update call on it returns
\* through the fast path or the re-check.
C9_ZeroRefreshNeverFresh ==
  \A s \in Slots :
    refresh_after[s] = Some(0) =>
      /\ value_if_not_stale(s) = None
      /\ (IsReturn /\ cslot[ev.proc] = s) => ev.via \notin {"fast", "recheck"}

\* On a zero-refresh slot a call that started right after a successful fetch
\* (no time has passed) fetched again.
C9_Witness ==
  /\ ev.via = "fetch"
  /\ ev.call.sawFetched # None
  /\ now = 0
  /\ refresh_after[cslot[ev.proc]] = Some(0)

\* C10: on a slot built with refresh_after = None, once a fetch has succeeded
\* and as long as mark_as_stale and clear are not called, the slot stays
\* fresh, every call that starts returns the cached value on the fast path,
\* and no such call ever gets as far as the lock or a fetch.
C10_NoRefreshWindowCachesForever ==
  \A s \in Slots :
    refresh_after[s] = None =>
      /\ fetchedOK[s] # None => value_if_not_stale(s) = fetchedOK[s]
      /\ \A p \in Procs : cslot[p] = s => ccall[p].sawFetched = None
      /\ (IsReturn /\ cslot[ev.proc] = s /\ ev.call.sawFetched # None) =>
            (ev.via = "fast" /\ ev.val = ev.call.sawFetched)

\* The value fetched at time 0 is returned from the fast path at MaxTime.
C10_Witness ==
  /\ ev.via = "fast"
  /\ ev.call.sawFetched # None
  /\ refresh_after[cslot[ev.proc]] = None
  /\ last_update[cslot[ev.proc]] = Some(0)
  /\ now = MaxTime

\* The slot's fields are assigned in this step.
Mutates(s) ==
  \/ value'[s] # value[s]
  \/ last_update'[s] # last_update[s]
  \/ manually_marked_stale'[s] # manually_marked_stale[s]
  \/ inflight'[s] # inflight[s]

\* Caller p runs in this step, inside get_or_update on slot s, and holds the
\* slot's lock when the step begins or when it ends.
RunsHoldingLock(p, s) ==
  /\ cpc'[p] # cpc[p]
  /\ cslot'[p] = s
  /\ \/ lock[s] # <<>> /\ Head(lock[s]) = p
     \/ lock'[s] # <<>> /\ Head(lock'[s]) = p

\* C15: every assignment to a slot's value, last-update timestamp,
\* manual-stale flag or in-flight handle is made by a caller that holds the
\* slot's lock; set, clear and mark_as_stale called from outside
\* get_or_update are included.
C15_MutationsOnlyUnderLock ==
  [][\A s \in DOMAIN value :
       Mutates(s) => \E p \in Procs : RunsHoldingLock(p, s)]_vars

\* C21: a successful fetch in get_or_update stores the result, sets the
\* last-update timestamp to the current time and clears the manual-stale
\* flag; a failed fetch leaves the slot's value, last-update timestamp and
\* manual-stale flag as they were, so a slot marked stale stays marked.
C21_FetchFrameEffect ==
  [][\A s \in DOMAIN value :
       /\ (ev'.via = "fetch" /\ cslot[ev'.proc] = s) =>
            /\ value'[s] = ev'.val
            /\ last_update'[s] = Some(now)
            /\ ~manually_marked_stale'[s]
       /\ (ev'.via \in {"fallback", "raise"} /\ cslot[ev'.proc] = s) =>
            /\ value'[s] = value[s]
            /\ last_update'[s] = last_update[s]
            /\ manually_marked_stale'[s] = manually_marked_stale[s]]_vars

\* A fetch failed on a slot that was marked stale and holds a value: the
\* call fell back to the value and the mark is still there.
C21_Witness ==
  /\ ev.via = "fallback"
  /\ manually_marked_stale[cslot[ev.proc]]
  /\ value[cslot[ev.proc]] # None

\* C26: whenever a slot's lock is not held its in-flight handle is empty,
\* and no call waits on a handle it found set after acquiring the lock.
C26_NoHandleWithoutLock ==
  /\ \A s \in DOMAIN value : lock[s] = <<>> => inflight[s] = None
  /\ \A p \in DOMAIN cpc : cpc[p] # "await_inflight"

\* An attempt has failed and raised; the lock is free and the handle empty,
\* so the next call can start a new attempt.
C26_Witness ==
  /\ ev.via = "raise"
  /\ lock[cslot[ev.proc]] = <<>>
  /\ inflight[cslot[ev.proc]] = None

\* =====================================================================
\*  Shared API registry (__init__.py)
\* =====================================================================

\* Sessions (NeakasaAPI objects) are numbered in the order they are created;
\* at most MaxSessions are created in one run.  Lock objects are named by
\* numbers too; a number is reused once nothing refers to the lock it named.
MaxSessions == 4
MaxLocks == 4
SessionIds == 1..MaxSessions
LockIds == 1..MaxLocks
\* credentials_key = f"{username}:{password}"
Keys == {"u1:pw1"}

Opt(o) == IF o = None THEN {} ELSE {o[1]}

\* History of one registry call: the operation; the entry registered when
\* it was called and whether that entry was connected with a token; whether
\* no other call for the key was in progress (seq); whether it is the first
\* call after a clear_shared_api made while no call for the key was in
\* progress (afterClear), and the session that clear removed (prior);
\* whether it had to wait for the lock; the sessions registered for its key
\* since it was called (newer).
NoRCall == [op |-> "none", regAtCall |-> None, validAtCall |-> FALSE,
            seq |-> FALSE, afterClear |-> FALSE, prior |-> None,
            priorReused |-> FALSE,
            waited |-> FALSE, newer |-> {}]
\* The last clear_shared_api, until the next call for the key: whether it
\* was made while no call for the key was in progress (yes), the session it
\* removed (prior), and whether a get_shared_api call had returned that
\* session as the already registered instance (reused).
NoCleared == [yes |-> FALSE, prior |-> None, reused |-> FALSE]
\* The last step's return from get_shared_api / force_reconnect_api, if it
\* was one: how is "reuse" (line 52), "connected" (line 68) or "raise".
NoREv == [proc |-> 0, key |-> None, how |-> "none", sess |-> None,
          call |-> NoRCall]

\* NeakasaAPI(session, ...): a new object
FreshSession == nextSession

\* The reuse test without the token: api.connected alone.
Valid_connected_only(sid) == connected[sid]

FreeLocks ==
  {l \in LockIds : lockq[l] = <<>>
                   /\ \A k \in DOMAIN shared_locks : shared_locks[k] # Some(l)}
\* asyncio.Lock(): a new object
FreshLock == CHOOSE l \in FreeLocks : \A j \in FreeLocks : l <= j

\* api.connected and hasattr(api, '_iotToken') and api._iotToken
Valid(sid) == connected[sid] /\ iotToken[sid]

\* A session that is in no map entry is never read again: its flags are
\* dropped with it.
Norm(f, apis) ==
  [i \in SessionIds |-> f[i] /\ \E k \in DOMAIN apis : apis[k] = Some(i)]

\* What a call for key k by p finds when it is made (history only).
CallRecord(p, op, k) ==
  [op |-> op,
   regAtCall |-> shared_apis[k],
   validAtCall |-> shared_apis[k] # None /\ Valid(shared_apis[k][1]),
   seq |-> \A q \in Procs \ {p} : rkey[q] # Some(k),
   afterClear |-> cleared[k].yes,
   prior |-> cleared[k].prior,
   priorReused |-> cleared[k].reused,
   waited |-> FALSE,
   newer |-> {}]

\* The body of "async with _shared_locks[credentials_key]" up to
\* "await api.connect", run by p holding lock object lk (queue q, p at its
\* head); apis is the session map as the caller left it.
UnderLock(p, k, lk, q, apis, c) ==
  IF apis[k] # None /\ Valid(apis[k][1])
  THEN \* reuse the existing instance
       /\ shared_apis' = apis
       /\ connected' = Norm(connected, apis)
       /\ iotToken' = Norm(iotToken, apis)
       /\ lockq' = [lockq EXCEPT ![lk] = Tail(q)]
       /\ rpc' = [rpc EXCEPT ![p] = "idle"]
       /\ rkey' = [rkey EXCEPT ![p] = None]
       /\ rlock' = [rlock EXCEPT ![p] = None]
       /\ rcall' = [rcall EXCEPT ![p] = NoRCall]
       /\ rev' = [proc |-> p, key |-> Some(k), how |-> "reuse",
                  sess |-> apis[k], call |-> c]
       /\ reusedSess' = [reusedSess EXCEPT ![k] =
                           IF c.op = "get" THEN apis[k] ELSE @]
       /\ UNCHANGED <<rapi, nextSession>>
  ELSE \* del _shared_apis[key] if present; api = NeakasaAPI(...); connect
       /\ nextSession <= MaxSessions
       /\ shared_apis' = [apis EXCEPT ![k] = None]
       /\ connected' = Norm(connected, [apis EXCEPT ![k] = None])
       /\ iotToken' = Norm(iotToken, [apis EXCEPT ![k] = None])
       /\ lockq' = [lockq EXCEPT ![lk] = q]
       /\ rpc' = [rpc EXCEPT ![p] = "connecting"]
       /\ rkey' = [rkey EXCEPT ![p] = Some(k)]
       /\ rlock' = [rlock EXCEPT ![p] = Some(lk)]
       /\ rapi' = [rapi EXCEPT ![p] = Some(FreshSession)]
       /\ nextSession' = nextSession + 1
       /\ rcall' = [rcall EXCEPT ![p] = c]
       /\ rev' = NoREv
       /\ UNCHANGED reusedSess

\* get_shared_api from its first line to its first suspension; apis is the
\* session map as the caller left it.
EnterGetSharedApi(p, k, apis, c) ==
  /\ rpc[p] = "idle"
  /\ shared_locks[k] = None => FreeLocks # {}
  /\ LET lk == IF shared_locks[k] # None THEN shared_locks[k][1] ELSE FreshLock
     IN /\ shared_locks' = [shared_locks EXCEPT ![k] = Some(lk)]
        /\ IF lockq[lk] = <<>>
           THEN UnderLock(p, k, lk, <<p>>, apis, c)
           ELSE /\ lockq' = [lockq EXCEPT ![lk] = Append(lockq[lk], p)]
                /\ rpc' = [rpc EXCEPT ![p] = "wait_lock"]
                /\ rkey' = [rkey EXCEPT ![p] = Some(k)]
                /\ rlock' = [rlock EXCEPT ![p] = Some(lk)]
                /\ shared_apis' = apis
                /\ connected' = Norm(connected, apis)
                /\ iotToken' = Norm(iotToken, apis)
                /\ rcall' = [rcall EXCEPT ![p] = c]
                /\ rev' = NoREv
                /\ UNCHANGED <<rapi, nextSession, reusedSess>>
  /\ cleared' = [cleared EXCEPT ![k] = NoCleared]
  /\ UNCHANGED <<cacheVars, cipherVars, tickVars, entryVars, liveVars>>

get_shared_api(p, k) ==
  EnterGetSharedApi(p, k, shared_apis, CallRecord(p, "get", k))

\* force_reconnect_api that does not remove the registered instance.
force_reconnect_api_keep(p, k) ==
  EnterGetSharedApi(p, k, shared_apis, CallRecord(p, "force", k))

force_reconnect_api(p, k) ==
  EnterGetSharedApi(p, k, [shared_apis EXCEPT ![k] = None],
                    CallRecord(p, "force", k))

\* del d[key]: KeyError when the key is absent.
dict_del(d, k) ==
  IF d[k] # None THEN [raised |-> FALSE, d |-> [d EXCEPT ![k] = None]]
  ELSE [raised |-> TRUE, d |-> d]

\* The two deletions without their "if credentials_key in" tests.
ClearedMaps_unguarded(apis, locks, k) ==
  LET a == dict_del(apis, k)
      l == dict_del(locks, k)
  IN [raised |-> a.raised \/ l.raised, apis |-> a.d,
      locks |-> IF a.raised THEN locks ELSE l.d]

\* The body of clear_shared_api on the two maps: what it leaves of them
\* and whether it raised.
ClearedMaps(apis, locks, k) ==
  LET a == IF apis[k] # None THEN dict_del(apis, k)
           ELSE [raised |-> FALSE, d |-> apis]
      l == IF locks[k] # None THEN dict_del(locks, k)
           ELSE [raised |-> FALSE, d |-> locks]
  IN [raised |-> a.raised \/ l.raised, apis |-> a.d,
      locks |-> IF a.raised THEN locks ELSE l.d]

\* clear_shared_api that removes the lock and leaves the session.
clear_shared_api_lock_only(k) ==
  /\ shared_locks' = [shared_locks EXCEPT ![k] = None]
  /\ cleared' = [cleared EXCEPT ![k] =
                 [yes |-> \A q \in Procs : rkey[q] # Some(k),
                  prior |-> shared_apis[k],
                  reused |-> shared_apis[k] # None /\ reusedSess[k] = shared_apis[k]]]
  /\ rev' = NoREv
  /\ UNCHANGED <<shared_apis, connected, iotToken, lockq, rpc, rkey, rlock,
                 rapi, rcall, nextSession, reusedSess>>
  /\ UNCHANGED <<cacheVars, cipherVars, tickVars, liveVars>>

clear_shared_api(k) ==
  /\ shared_apis' = ClearedMaps(shared_apis, shared_locks, k).apis
  /\ connected' =
       Norm(connected, ClearedMaps(shared_apis, shared_locks, k).apis)
  /\ iotToken' =
       Norm(iotToken, ClearedMaps(shared_apis, shared_locks, k).apis)
  /\ shared_locks' = ClearedMaps(shared_apis, shared_locks, k).locks
  /\ cleared' = [cleared EXCEPT ![k] =
                 [yes |-> \A q \in Procs : rkey[q] # Some(k),
                  prior |-> shared_apis[k],
                  reused |-> shared_apis[k] # None /\ reusedSess[k] = shared_apis[k]]]
  /\ rev' = NoREv
  /\ UNCHANGED <<lockq, rpc, rkey, rlock, rapi, rcall, nextSession, reusedSess>>
  /\ UNCHANGED <<cacheVars, cipherVars, tickVars, liveVars>>

\* A caller that waited for the lock object it took from the map is handed it.
RLockGranted(p) ==
  /\ rpc[p] = "wait_lock"
  /\ lockq[rlock[p][1]] # <<>> /\ Head(lockq[rlock[p][1]]) = p
  /\ UnderLock(p, rkey[p][1], rlock[p][1], lockq[rlock[p][1]], shared_apis,
               [rcall[p] EXCEPT !.waited = TRUE])
  /\ UNCHANGED <<shared_locks, cleared>>
  /\ UNCHANGED <<cacheVars, cipherVars, tickVars, entryVars, liveVars>>

\* Force calls in progress for key k learn that sid was registered (history).
NoteRegistered(p, k, sid) ==
  [q \in Procs |->
     IF q = p THEN NoRCall
     ELSE IF rkey[q] = Some(k) /\ rcall[q].op = "force"
     THEN [rcall[q] EXCEPT !.newer = @ \cup {sid}]
     ELSE rcall[q]]

\* "await api.connect(username, password)" returns: the session is connected
\* and holds its token; it is stored in the map and returned.
ConnectReturns(p) ==
  /\ rpc[p] = "connecting"
  /\ LET k == rkey[p][1]
         sid == rapi[p][1]
         lk == rlock[p][1]
         apis == [shared_apis EXCEPT ![k] = Some(sid)]
     IN /\ shared_apis' = apis
        /\ connected' = Norm([connected EXCEPT ![sid] = TRUE], apis)
        /\ iotToken' = Norm([iotToken EXCEPT ![sid] = TRUE], apis)
        /\ lockq' = [lockq EXCEPT ![lk] = Release(lockq[lk], p)]
        /\ rcall' = NoteRegistered(p, k, sid)
        /\ rev' = [proc |-> p, key |-> Some(k), how |-> "connected",
                   sess |-> Some(sid), call |-> rcall[p]]
  /\ rpc' = [rpc EXCEPT ![p] = "idle"]
  /\ rkey' = [rkey EXCEPT ![p] = None]
  /\ rlock' = [rlock EXCEPT ![p] = None]
  /\ rapi' = [rapi EXCEPT ![p] = None]
  /\ UNCHANGED <<shared_locks, cleared, nextSession, reusedSess>>
  /\ UNCHANGED <<cacheVars, cipherVars, tickVars, entryVars, liveVars>>

\* "await api.connect(username, password)" raises: logged and re-raised.
ConnectRaises(p) ==
  /\ rpc[p] = "connecting"
  /\ lockq' = [lockq EXCEPT ![rlock[p][1]] = Release(lockq[rlock[p][1]], p)]
  /\ rcall' = [rcall EXCEPT ![p] = NoRCall]
  /\ rev' = [proc |-> p, key |-> rkey[p], how |-> "raise", sess |-> None,
             call |-> rcall[p]]
  /\ rpc' = [rpc EXCEPT ![p] = "idle"]
  /\ rkey' = [rkey EXCEPT ![p] = None]
  /\ rlock' = [rlock EXCEPT ![p] = None]
  /\ rapi' = [rapi EXCEPT ![p] = None]
  /\ UNCHANGED <<shared_apis, connected, iotToken, shared_locks, cleared,
                 nextSession, reusedSess>>
  /\ UNCHANGED <<cacheVars, cipherVars, tickVars, entryVars, liveVars>>

\* A registered session loses its connection, or its token becomes empty.
Disconnects(k) ==
  /\ shared_apis[k] # None /\ connected[shared_apis[k][1]]
  /\ connected' = [connected EXCEPT ![shared_apis[k][1]] = FALSE]
  /\ rev' = NoREv
  /\ UNCHANGED <<shared_apis, shared_locks, lockq, iotToken, rpc, rkey, rlock,
                 rapi, rcall, cleared, nextSession, reusedSess>>
  /\ UNCHANGED <<cacheVars, cipherVars, tickVars, entryVars, liveVars>>

TokenExpires(k) ==
  /\ shared_apis[k] # None /\ iotToken[shared_apis[k][1]]
  /\ iotToken' = [iotToken EXCEPT ![shared_apis[k][1]] = FALSE]
  /\ rev' = NoREv
  /\ UNCHANGED <<shared_apis, shared_locks, lockq, connected, rpc, rkey, rlock,
                 rapi, rcall, cleared, nextSession, reusedSess>>
  /\ UNCHANGED <<cacheVars, cipherVars, tickVars, entryVars, liveVars>>

\* The cache is not part of this specification.
CacheIdle ==
  /\ refresh_after = <<>> /\ discard_after = <<>>
  /\ manually_marked_stale = <<>> /\ value = <<>> /\ last_update = <<>>
  /\ lock = <<>> /\ inflight = <<>> /\ now = 0
  /\ cpc = <<>> /\ cslot = <<>> /\ task = <<>> /\ awaiting = <<>>
  /\ ccall = <<>> /\ markPending = <<>> /\ fetchedOK = <<>> /\ ev = NoEv

\* Module import: _shared_apis = {} and _shared_locks = {}.
RegistryInitFor(K) ==
  /\ shared_apis = [k \in K |-> None]
  /\ shared_locks = [k \in K |-> None]
  /\ lockq = [l \in LockIds |-> <<>>]
  /\ connected = [i \in SessionIds |-> FALSE]
  /\ iotToken = [i \in SessionIds |-> FALSE]
  /\ rpc = [p \in Procs |-> "idle"]
  /\ rkey = [p \in Procs |-> None]
  /\ rlock = [p \in Procs |-> None]
  /\ rapi = [p \in Procs |-> None]
  /\ nextSession = 1
  /\ rcall = [p \in Procs |-> NoRCall]
  /\ cleared = [k \in K |-> NoCleared]
  /\ reusedSess = [k \in K |-> None]
  /\ rev = NoREv

RegistryInit == RegistryInitFor(Keys)

InitRegistry ==
  RegistryInit /\ CacheIdle /\ CipherIdle /\ TickIdle /\ EntryIdle /\ LiveIdle

NextRegistry ==
  \/ \E p \in Procs, k \in DOMAIN shared_apis : get_shared_api(p, k)
  \/ \E p \in Procs, k \in DOMAIN shared_apis : force_reconnect_api(p, k)
  \/ \E k \in DOMAIN shared_apis : clear_shared_api(k) /\ UNCHANGED entryVars
  \/ \E p \in Procs : RLockGranted(p)
  \/ \E p \in Procs : ConnectReturns(p)
  \/ \E p \in Procs : ConnectRaises(p)
  \/ \E k \in DOMAIN shared_apis : Disconnects(k)
  \/ \E k \in DOMAIN shared_apis : TokenExpires(k)

SpecRegistry == InitRegistry /\ [][NextRegistry]_vars

\* ---------------------------------------------------------------------
\*  Properties of the registry (checked under SpecRegistry)
\* ---------------------------------------------------------------------

IsRReturn == rev.how # "none"

\* C3: at most one api.connect per credentials key is in progress at any time.
C3_OneConnectAtATime ==
  \A k \in DOMAIN shared_apis :
    Cardinality({p \in Procs : rpc[p] = "connecting" /\ rkey[p] = Some(k)}) <= 1

\* C4: a get_shared_api call made while no other call for the key is in
\* progress and the registered session is connected with a token returns that
\* very instance at once, without api.connect; the next get_shared_api call
\* after a clear_shared_api (no call being in progress) does connect, and
\* the session it returns is not the one that clear_shared_api removed (it
\* is the newly registered one).
C4_ReuseThenFreshAfterClear ==
  /\ \A p \in Procs :
       ~(rcall[p].op = "get" /\ rcall[p].validAtCall /\ rcall[p].seq)
  /\ (IsRReturn /\ rev.call.op = "get" /\ rev.call.validAtCall /\ rev.call.seq)
       => (rev.how = "reuse" /\ rev.sess = rev.call.regAtCall)
  /\ (IsRReturn /\ rev.call.op = "get" /\ rev.call.afterClear)
       => /\ rev.how \in {"connected", "raise"}
          /\ rev.how = "connected" =>
               (rev.sess # rev.call.prior /\ shared_apis[rev.key[1]] = rev.sess)

\* A session was returned as the registered instance, clear_shared_api
\* removed it, and the next get_shared_api call connected a new one.
C4_Witness ==
  /\ rev.how = "connected"
  /\ rev.call.op = "get"
  /\ rev.call.afterClear /\ rev.call.prior # None /\ rev.call.priorReused

\* C5 as stated: every force_reconnect_api call runs an api.connect of its own
\* (it returns the session it connected, or raises), and never returns the
\* instance that was registered when it was called.
C5_ForceReconnectAlwaysConnects ==
  (IsRReturn /\ rev.call.op = "force") =>
     /\ rev.how \in {"connected", "raise"}
     /\ rev.how # "raise" => rev.sess # rev.call.regAtCall

\* C5 amended: a force_reconnect_api call never returns the instance that was
\* registered when it was called; when it gets the lock without waiting it
\* runs an api.connect of its own; it returns a session without connecting
\* only after waiting for the lock, and then one that was registered (its
\* api.connect completed) after the call was made.
C5_ForceReconnectReturnsNewerSession ==
  (IsRReturn /\ rev.call.op = "force") =>
     /\ rev.how # "raise" => rev.sess # rev.call.regAtCall
     /\ ~rev.call.waited => rev.how \in {"connected", "raise"}
     /\ rev.how = "reuse" => (rev.call.waited /\ rev.sess[1] \in rev.call.newer)

\* force_reconnect_api replaced a registered session that was connected and
\* held a token by a newly connected one.
C5_Witness ==
  /\ rev.how = "connected"
  /\ rev.call.op = "force"
  /\ rev.call.regAtCall # None /\ rev.call.validAtCall

\* C6: when a call ends because api.connect raised, no session is registered
\* for its key.
C6_FailedConnectLeavesNoEntry ==
  rev.how = "raise" => shared_apis[rev.key[1]] = None

\* Caller p runs in this step and holds the lock of key k while it changes
\* the maps: it was inside api.connect, or it took the lock in this step (at
\* once in get_shared_api, or after waiting) and went on to api.connect.
\* force_reconnect_api deletes the entry before it asks for the lock.
ChangesMapsHoldingLock(p, k) ==
  /\ rpc'[p] # rpc[p]
  /\ \/ rpc[p] = "connecting" /\ rkey[p] = Some(k)
     \/ rpc[p] = "wait_lock" /\ rkey[p] = Some(k) /\ rpc'[p] = "connecting"
     \/ /\ rpc[p] = "idle" /\ rpc'[p] = "connecting" /\ rkey'[p] = Some(k)
        /\ rcall'[p].op = "get"

\* C16: every insertion into and removal from the session map, and every
\* removal from the lock map, for key k is made by a caller that holds k's
\* lock (the creation of the lock itself, lines 41-42, is left aside).
C16_MapChangesOnlyUnderLock ==
  [][\A k \in DOMAIN shared_apis :
       (\/ shared_apis'[k] # shared_apis[k]
        \/ shared_locks[k] # None /\ shared_locks'[k] # shared_locks[k])
         => \E p \in Procs : ChangesMapsHoldingLock(p, k)]_vars

\* C17: a registered session is never overwritten directly by a different
\* session: the entry is removed before another session is stored.
C17_ActiveNeverOverwritten ==
  [][\A k \in DOMAIN shared_apis :
       (shared_apis[k] # None /\ shared_apis'[k] # None)
         => shared_apis'[k] = shared_apis[k]]_vars

\* C18: get_shared_api returns the registered instance only when it is
\* connected and has a token at that moment; a call that goes on to
\* api.connect has removed the entry it found; a session enters the map
\* only in the step in which its own api.connect returns, connected and
\* with a token, and that call returns this very session.
C18_ReuseOnlyValidStoreOnlyConnected ==
  [][/\ rev'.how = "reuse" =>
          /\ shared_apis'[rev'.key[1]] = rev'.sess
          /\ connected'[rev'.sess[1]] /\ iotToken'[rev'.sess[1]]
     /\ \A p \in Procs :
          (rpc'[p] = "connecting" /\ rpc[p] # "connecting")
            => shared_apis'[rkey'[p][1]] = None
     /\ \A k \in DOMAIN shared_apis :
          (shared_apis'[k] # None /\ shared_apis'[k] # shared_apis[k])
            => \E p \in Procs :
                 /\ rpc[p] = "connecting" /\ rkey[p] = Some(k)
                 /\ rapi[p] = shared_apis'[k]
                 /\ rev'.how = "connected" /\ rev'.proc = p
                 /\ rev'.sess = shared_apis'[k]
                 /\ connected'[rapi[p][1]] /\ iotToken'[rapi[p][1]]]_vars

\* get_shared_api found a registered session that was not connected or had
\* no token, removed it and returned a newly connected one.
C18_Witness ==
  /\ rev.how = "connected" /\ rev.call.op = "get"
  /\ rev.call.regAtCall # None /\ ~rev.call.validAtCall /\ ~rev.call.waited

\* =====================================================================
\*  APIEncryption (api_encryption.py)
\* =====================================================================

\* Text is a sequence of characters, data a sequence of bytes.  "NUL" is the
\* character U+0000 and the zero byte; "E9" is a character outside ASCII,
\* whose UTF-8 encoding is the two bytes C3 A9; every other character is
\* ASCII and encodes to one byte, written like the character.
block_size == 16
NulByte == "NUL"
Chars == {"@", "NUL", "E9"}

\* Plaintexts have a prefix and a suffix of up to MaxAffix characters from
\* Chars around a run of "a" that brings their length near a block boundary.
MaxAffix == 1
FillLens == {0, block_size - 2, block_size - 1, block_size}

Rep(x, n) == [i \in 1..n |-> x]
Affixes == UNION {[1..n -> Chars] : n \in 0..MaxAffix}

\* 'token@uid@1234567890123456' and a four-part login response
ExampleKey ==
  <<"1", "2", "3", "4", "5", "6", "7", "8", "9", "0",
    "1", "2", "3", "4", "5", "6">>
ExampleIv ==
  <<"6", "5", "4", "3", "2", "1", "0", "9", "8", "7",
    "6", "5", "4", "3", "2", "1">>
Example3 ==
  <<"t", "o", "k", "e", "n", "@", "u", "i", "d", "@">> \o ExampleKey
Example4 == Example3 \o <<"@">> \o ExampleIv

Plaintexts ==
  {pre \o Rep("a", n) \o suf : pre \in Affixes, n \in FillLens, suf \in Affixes}
    \cup {Example3, Example4}

\* const.py: AES_KEY_DEFAULT and AES_IV_DEFAULT, 16 bytes each
AES_KEY_DEFAULT == Rep("K", block_size)
AES_IV_DEFAULT == Rep("V", block_size)

\* str.encode("utf-8"): one byte for an ASCII character (and for NUL), the
\* two bytes C3 A9 for "E9"; the text is encoded half by half.
RECURSIVE Utf8Encode(_)
Utf8Encode(s) ==
  IF Len(s) = 0 THEN <<>>
  ELSE IF Len(s) = 1
  THEN (IF s[1] = "E9" THEN <<"C3", "A9">> ELSE <<s[1]>>)
  ELSE Utf8Encode(SubSeq(s, 1, Len(s) \div 2))
         \o Utf8Encode(SubSeq(s, (Len(s) \div 2) + 1, Len(s)))

\* Well-formed UTF-8: no byte FF, every C3 followed by A9, every A9 after
\* a C3.
Utf8Valid(b) ==
  \A j \in 1..Len(b) :
    /\ b[j] # "FF"
    /\ b[j] = "C3" => (j < Len(b) /\ b[j + 1] = "A9")
    /\ b[j] = "A9" => (j > 1 /\ b[j - 1] = "C3")

\* The text of well-formed bytes, decoded half by half without cutting a
\* two-byte character.
RECURSIVE Utf8Text(_)
Utf8Text(b) ==
  IF Len(b) = 0 THEN <<>>
  ELSE IF Len(b) = 1 THEN <<b[1]>>
  ELSE IF Len(b) = 2 /\ b[1] = "C3" THEN <<"E9">>
  ELSE LET m == Len(b) \div 2
           cut == IF b[m] = "C3" THEN m + 1 ELSE m
       IN Utf8Text(SubSeq(b, 1, cut)) \o Utf8Text(SubSeq(b, cut + 1, Len(b)))

\* bytes.decode("utf-8"): Some(text), or None for UnicodeDecodeError
Utf8Decode(b) == IF Utf8Valid(b) THEN Some(Utf8Text(b)) ELSE None

\* str.split("@"): the text before the first separator, then the parts of
\* the rest
RECURSIVE Split(_)
Split(s) ==
  LET seps == {i \in 1..Len(s) : s[i] = "@"}
  IN IF seps = {} THEN <<s>>
     ELSE LET i == CHOOSE x \in seps : \A y \in seps : x <= y
          IN <<SubSeq(s, 1, i - 1)>> \o Split(SubSeq(s, i + 1, Len(s)))

\* _pad that always adds padding: a whole block when the length is already
\* a multiple of the block size.
_pad_always(data) ==
  LET pad_len == block_size - (Len(data) % block_size)
  IN data \o Rep(NulByte, pad_len)

_pad(data) ==
  LET pad_len == (-Len(data)) % block_size
  IN IF pad_len = 0 THEN data ELSE data \o Rep(NulByte, pad_len)

\* bytes.rstrip(b"\x00"): everything up to the last byte that is not zero
_unpad(data) ==
  LET keep == {i \in 1..Len(data) : data[i] # NulByte}
  IN IF keep = {} THEN <<>>
     ELSE SubSeq(data, 1, CHOOSE i \in keep : \A j \in keep : j <= i)

\* Cipher(algorithms.AES(key), modes.CBC(iv)) raises ValueError for a key
\* that is not 16, 24 or 32 bytes long or an IV that is not 16 bytes long.
CipherOK(key, iv) == Len(key) \in {16, 24, 32} /\ Len(iv) = block_size

\* AES-CBC is a bijection on block-aligned data for each key and IV: a
\* ciphertext is written as the triple it was made from.  Decrypting under
\* another key or IV gives bytes that are not the plaintext (written FF).
AesCbcEncrypt(key, iv, data) == [key |-> key, iv |-> iv, data |-> data]
AesCbcDecrypt(key, iv, ct) ==
  IF ct.key = key /\ ct.iv = iv THEN ct.data ELSE Rep("FF", Len(ct.data))

\* base64 text: the bytes it encodes, and whether its "+" characters have
\* been turned into spaces on the way (URL decoding).
b64encode(raw) == [raw |-> raw, spaces |-> FALSE]
ReplaceSpaces(text) == [text EXCEPT !.spaces = FALSE]
b64decode(text) == text.raw

\* encrypt / decrypt under a given key and IV; the result is a record with
\* ok (FALSE when the call raises) and the value returned.
encrypt(key, iv, plain_text) ==
  IF ~CipherOK(key, iv) THEN [ok |-> FALSE, val |-> None]
  ELSE [ok |-> TRUE,
        val |-> Some(b64encode(AesCbcEncrypt(key, iv,
                                             _pad(Utf8Encode(plain_text)))))]

decrypt(key, iv, encrypted_text) ==
  IF ~CipherOK(key, iv) THEN [ok |-> FALSE, val |-> None]
  ELSE LET raw == b64decode(ReplaceSpaces(encrypted_text))
           pt_padded == AesCbcDecrypt(key, iv, raw)
           pt == Utf8Decode(_unpad(pt_padded))
       IN [ok |-> pt # None, val |-> pt]

\* The last call on the cipher (history): the operation, whether it
\* returned (ok) or raised, and the text it was given.
\* The cipher holds the key, the IV and the token resetEncryption assigns.
AtDefaults(e) ==
  e.aes_key = AES_KEY_DEFAULT /\ e.aes_iv = AES_IV_DEFAULT /\ e.token = <<>>

\* The last call (history): the operation, whether it returned, its
\* argument, and whether the cipher was away from its defaults when the
\* call was made.
NoEncCall == [op |-> "none", ok |-> TRUE, arg |-> None, away |-> FALSE]

\* resetEncryption()
resetEncryption(e) ==
  [e EXCEPT !.aes_key = AES_KEY_DEFAULT, !.aes_iv = AES_IV_DEFAULT,
            !.token = <<>>]

\* decodeLoginToken that derives uid after the key and IV are replaced.
decodeLoginToken_uid_last(login_token) ==
  LET e0 == resetEncryption(enc)
      d == decrypt(e0.aes_key, e0.aes_iv, login_token)
      parts == Split(d.val[1])
      e1 == IF Len(parts) >= 1 THEN [e0 EXCEPT !.token = parts[1]] ELSE e0
      e2 == IF Len(parts) >= 3
            THEN [e1 EXCEPT !.aes_key = Utf8Encode(parts[3])] ELSE e1
      e3 == IF Len(parts) >= 4
            THEN [e2 EXCEPT !.aes_iv = Utf8Encode(parts[4])] ELSE e2
      u == IF Len(parts) >= 2
           THEN encrypt(e3.aes_key, e3.aes_iv, parts[2])
           ELSE [ok |-> TRUE, val |-> None]
  IN IF ~d.ok
     THEN enc' = [e0 EXCEPT !.call = [op |-> "decodeLoginToken",
                                      ok |-> FALSE,
                                      arg |-> Some(login_token),
                                     away |-> ~AtDefaults(enc)]]
     ELSE enc' = [e3 EXCEPT !.userid = IF Len(parts) >= 2
                                       THEN Some(parts[2]) ELSE @,
                            !.uid = IF Len(parts) >= 2 /\ u.ok
                                    THEN u.val ELSE @,
                            !.call = [op |-> "decodeLoginToken",
                                      ok |-> u.ok,
                                      arg |-> Some(login_token),
                                     away |-> ~AtDefaults(enc)]]

\* decodeLoginToken that does not call resetEncryption first.
decodeLoginToken_no_reset(login_token) ==
  LET e0 == enc
      d == decrypt(e0.aes_key, e0.aes_iv, login_token)
      parts == Split(d.val[1])
      e1 == IF Len(parts) >= 1 THEN [e0 EXCEPT !.token = parts[1]] ELSE e0
      u == IF Len(parts) >= 2
           THEN encrypt(e1.aes_key, e1.aes_iv, parts[2])
           ELSE [ok |-> TRUE, val |-> None]
      e2 == IF Len(parts) >= 2
            THEN [e1 EXCEPT !.userid = Some(parts[2]), !.uid = u.val]
            ELSE e1
      e3 == IF Len(parts) >= 3
            THEN [e2 EXCEPT !.aes_key = Utf8Encode(parts[3])] ELSE e2
      e4 == IF Len(parts) >= 4
            THEN [e3 EXCEPT !.aes_iv = Utf8Encode(parts[4])] ELSE e3
  IN IF ~d.ok
     THEN enc' = [e0 EXCEPT !.call = [op |-> "decodeLoginToken",
                                      ok |-> FALSE,
                                      arg |-> Some(login_token),
                                     away |-> ~AtDefaults(enc)]]
     ELSE enc' = [e4 EXCEPT !.call = [op |-> "decodeLoginToken",
                                      ok |-> TRUE,
                                      arg |-> Some(login_token),
                                     away |-> ~AtDefaults(enc)]]

\* decodeLoginToken(login_token): the fields are assigned in the order of
\* the code; an exception leaves what was assigned before it.
decodeLoginToken(login_token) ==
  LET e0 == resetEncryption(enc)
      d == decrypt(e0.aes_key, e0.aes_iv, login_token)
      parts == Split(d.val[1])
      e1 == IF Len(parts) >= 1 THEN [e0 EXCEPT !.token = parts[1]] ELSE e0
      u == IF Len(parts) >= 2
           THEN encrypt(e1.aes_key, e1.aes_iv, parts[2])
           ELSE [ok |-> TRUE, val |-> None]
      e2 == IF Len(parts) >= 2
            THEN [e1 EXCEPT !.userid = Some(parts[2]), !.uid = u.val]
            ELSE e1
      e3 == IF Len(parts) >= 3
            THEN [e2 EXCEPT !.aes_key = Utf8Encode(parts[3])] ELSE e2
      e4 == IF Len(parts) >= 4
            THEN [e3 EXCEPT !.aes_iv = Utf8Encode(parts[4])] ELSE e3
  IN IF ~d.ok
     THEN enc' = [e0 EXCEPT !.call = [op |-> "decodeLoginToken",
                                      ok |-> FALSE,
                                      arg |-> Some(login_token),
                                     away |-> ~AtDefaults(enc)]]
     ELSE enc' = [e4 EXCEPT !.call = [op |-> "decodeLoginToken",
                                      ok |-> TRUE,
                                      arg |-> Some(login_token),
                                     away |-> ~AtDefaults(enc)]]

\* The text as it arrives: as produced, or with "+" turned into spaces.
Arrives(text, sp) == [text EXCEPT !.spaces = sp]

\* The login response the server sends for plaintext p: p encrypted under
\* the default key and IV, or (a response this client cannot read) under
\* another key.
LoginResponses(pt) ==
  {encrypt(k, AES_IV_DEFAULT, pt).val[1] : k \in {AES_KEY_DEFAULT, ExampleKey}}

CallDecodeLoginToken ==
  /\ \E r \in LoginResponses(enc.input), sp \in BOOLEAN :
       decodeLoginToken(Arrives(r, sp))
  /\ UNCHANGED <<cacheVars, regVars, tickVars, entryVars, liveVars>>

\* encrypt(plain_text) on the cipher's current key and IV
CallEncrypt ==
  /\ LET r == encrypt(enc.aes_key, enc.aes_iv, enc.input)
     IN enc' = [enc EXCEPT !.out = IF r.ok THEN r.val ELSE @,
                           !.back = None,
                           !.call = [op |-> "encrypt", ok |-> r.ok,
                                     arg |-> None,
                                     away |-> ~AtDefaults(enc)]]
  /\ UNCHANGED <<cacheVars, regVars, tickVars, entryVars, liveVars>>

\* decrypt(encrypted_text) of the text the last encrypt returned
CallDecrypt ==
  /\ enc.out # None
  /\ \E sp \in BOOLEAN :
       LET r == decrypt(enc.aes_key, enc.aes_iv, Arrives(enc.out[1], sp))
       IN enc' = [enc EXCEPT !.back = IF r.ok THEN r.val ELSE None,
                             !.call = [op |-> "decrypt", ok |-> r.ok,
                                       arg |-> Some(Arrives(enc.out[1], sp)),
                                     away |-> ~AtDefaults(enc)]]
  /\ UNCHANGED <<cacheVars, regVars, tickVars, entryVars, liveVars>>

CallResetEncryption ==
  /\ enc' = [resetEncryption(enc) EXCEPT !.call = [op |-> "resetEncryption",
                                                   ok |-> TRUE,
                                                   arg |-> None,
                                     away |-> ~AtDefaults(enc)]]
  /\ UNCHANGED <<cacheVars, regVars, tickVars, entryVars, liveVars>>

\* APIEncryption(): default key and IV, empty token; userid and uid are not
\* set yet.  input is the plaintext this run works on, out the text the last
\* encrypt returned, back what decrypt made of it.
CipherInit ==
  \E pt \in Plaintexts :
    enc = [aes_key |-> AES_KEY_DEFAULT, aes_iv |-> AES_IV_DEFAULT,
           token |-> <<>>, userid |-> None, uid |-> None,
           input |-> pt, out |-> None, back |-> None, call |-> NoEncCall]

InitCipher == CipherInit /\ CacheIdle /\ RegIdle /\ TickIdle /\ EntryIdle /\ LiveIdle

NextCipher ==
  \/ CallDecodeLoginToken
  \/ CallEncrypt
  \/ CallDecrypt
  \/ CallResetEncryption

SpecCipher == InitCipher /\ [][NextCipher]_vars

\* ---------------------------------------------------------------------
\*  Properties of APIEncryption (checked under SpecCipher)
\* ---------------------------------------------------------------------

\* What the login response of the last decodeLoginToken decrypts to under
\* the default key and IV.
LoginPlain == decrypt(AES_KEY_DEFAULT, AES_IV_DEFAULT, enc.call.arg[1])
LoginParts == Split(LoginPlain.val[1])

\* C13: after decodeLoginToken of a response with 1 to 4 parts, the token is
\* part 0; userid is part 1 and uid is part 1 encrypted under the default
\* key and IV (k >= 2); the key is the bytes of part 2 (k >= 3), else the
\* default; the IV is the bytes of part 3 (k = 4), else the default.  For
\* 'token@uid@1234567890123456': token 'token', key '1234567890123456',
\* default IV.
C13_DecodeLoginTokenParts ==
  (enc.call.op = "decodeLoginToken" /\ LoginPlain.ok /\ Len(LoginParts) <= 4)
    => LET k == Len(LoginParts)
       IN /\ enc.call.ok
          /\ enc.token = LoginParts[1]
          /\ k >= 2 =>
               /\ enc.userid = Some(LoginParts[2])
               /\ enc.uid # None
               /\ enc.uid[1].raw.key = AES_KEY_DEFAULT
               /\ enc.uid[1].raw.iv = AES_IV_DEFAULT
               /\ enc.uid = encrypt(AES_KEY_DEFAULT, AES_IV_DEFAULT,
                                    LoginParts[2]).val
          /\ enc.aes_key = IF k >= 3 THEN Utf8Encode(LoginParts[3])
                           ELSE AES_KEY_DEFAULT
          /\ enc.aes_iv = IF k = 4 THEN Utf8Encode(LoginParts[4])
                          ELSE AES_IV_DEFAULT
          /\ LoginPlain.val = Some(Example3) =>
               /\ enc.token = <<"t", "o", "k", "e", "n">>
               /\ enc.userid = Some(<<"u", "i", "d">>)
               /\ enc.aes_key = ExampleKey
               /\ enc.aes_iv = AES_IV_DEFAULT

\* decodeLoginToken has decoded 'token@uid@1234567890123456'.
C13_Witness ==
  /\ enc.call.op = "decodeLoginToken" /\ enc.call.ok
  /\ enc.input = Example3
  /\ enc.aes_key = ExampleKey /\ enc.uid # None

\* A text without its trailing NUL characters: the text up to its last
\* character that is not NUL.
WithoutTrailingNul(s) ==
  LET other == {n \in 1..Len(s) : s[n] # "NUL"}
  IN IF other = {} THEN <<>>
     ELSE SubSeq(s, 1, CHOOSE n \in other : \A m \in other : m <= n)

\* C14: encrypt pads the encoded plaintext with zero bytes to the next
\* multiple of 16 bytes, and adds nothing when its length is one already;
\* decrypt of what encrypt returned, under the same key and IV, gives the
\* plaintext, without its trailing zero bytes if it had any.
C14_RoundTripStripsTrailingZeros ==
  /\ enc.out # None =>
       LET data == enc.out[1].raw.data
           b == Utf8Encode(enc.input)
       IN /\ Len(data) % 16 = 0
          /\ Len(data) - Len(b) \in 0..15
          /\ data = b \o Rep(NulByte, Len(data) - Len(b))
  /\ (/\ enc.call.op = "decrypt"
      /\ enc.out[1].raw.key = enc.aes_key /\ enc.out[1].raw.iv = enc.aes_iv)
       => /\ enc.call.ok
          /\ enc.back = Some(WithoutTrailingNul(enc.input))
          /\ (enc.input = <<>> \/ enc.input[Len(enc.input)] # "NUL")
               => enc.back = Some(enc.input)

\* A plaintext of a whole block or more that ends in zero bytes came back
\* from the round trip without them.
C14_Witness ==
  /\ enc.call.op = "decrypt" /\ enc.call.ok
  /\ enc.input # <<>>
  /\ Len(Utf8Encode(enc.input)) >= block_size
  /\ enc.input[Len(enc.input)] = "NUL"
  /\ enc.back = Some(WithoutTrailingNul(enc.input))
  /\ enc.back # Some(enc.input)

\* C25: a decodeLoginToken call that fails in decrypting or decoding the
\* login response leaves the cipher with the default key, the default IV
\* and an empty token, whatever it held before the call.
C25_FailedLoginLeavesDefaults ==
  (enc.call.op = "decodeLoginToken" /\ ~enc.call.ok) => AtDefaults(enc)

\* A cipher that held a key, IV or token of an earlier login has failed to
\* read a login response.
C25_Witness ==
  /\ enc.call.op = "decodeLoginToken" /\ ~enc.call.ok
  /\ enc.call.away
  /\ AtDefaults(enc)

\* =====================================================================
\*  NeakasaCoordinator.async_update_data (coordinator.py)
\* =====================================================================

\* One coordinator with its two cache slots.  The calls of
\* async_update_data (poll ticks) are the coroutines in Procs; nothing in
\* the coordinator keeps two of them from overlapping.  The registry and
\* the remote service are seen from the tick: a fetch, a forced reconnect
\* and the retried fetch each end by returning or by raising.
ThirtyMinutes == 1
FourHours == 8 * ThirtyMinutes
TickSlots == {"props", "records"}
\* devicedata['catLeft']['time'] as the device reports it
LastUseTimes == {"t1", "t2"}
\* the history payload (cat_list, record_list)
Histories == {"h"}
\* APIAuthError; APIConnectionError with and without "identityId is blank"
FetchErrors == {"auth", "identity", "conn"}

\* The fields NeakasaAPIData declares, those without a default, and the
\* keyword arguments of the three constructor calls.
DataFields ==
  {"binFullWaitReset", "sandLevelState", "sandLevelPercent", "bucketStatus",
   "room_of_bin", "stayTime", "lastUse", "cat_list", "record_list"}
RequiredFields == DataFields \ {"cat_list", "record_list"}
FirstKwargs ==
  {"binFullWaitReset", "sandLevelPercent", "bucketStatus", "room_of_bin",
   "sandLevelState", "stayTime", "lastUse", "cat_list", "record_list"}
RetryKwargs ==
  FirstKwargs \cup {"cleanCfg", "youngCatMode", "childLockOnOff", "autoBury",
                    "autoLevel", "silentMode", "autoForceInit",
                    "bIntrptRangeDet", "wifiRssi"}

\* NeakasaAPIData(**kwargs): the dataclass __init__ raises TypeError for a
\* keyword it does not declare and for a missing required field.
NeakasaAPIData(kwargs) ==
  IF kwargs \subseteq DataFields /\ RequiredFields \subseteq kwargs
  THEN "ok" ELSE "TypeError"

\* History of one tick: the error that ended its first attempt; the forced
\* reconnects it made and how the last one ended; the retried device fetches
\* and how the retry and the history read after it ended; whether a
\* device-property fetch through the cache raised an authentication error;
\* whether a device-property fetch succeeded; the comparisons of fetched
\* last-use times with the recorded one (made, found changed, found
\* unchanged while the cached history was younger than 30 minutes); the
\* history fetches it started.
NoTickHist ==
  [firstErr |-> "none", reconnects |-> 0, reconnect |-> "none",
   retries |-> 0, retry |-> "none", history |-> "none",
   propsAuthFail |-> FALSE, propsOK |-> FALSE,
   compares |-> 0, changed |-> FALSE, sameFresh |-> FALSE,
   histFetches |-> 0]

\* A tick: where it is suspended (pc) and on which slot; whether it is in
\* its first attempt or in the retry of an except branch.
IdleTick ==
  [pc |-> "idle", slot |-> "props", phase |-> "first", h |-> NoTickHist]
NoTEv == [proc |-> 0, how |-> "none", h |-> NoTickHist]

\* What a call left behind when control came back to the tick.
Suspended == [kind |-> "suspended", val |-> None]
Gave(v) == [kind |-> "returned", val |-> Some(v)]
Raised(err) == [kind |-> "raised", val |-> Some(err)]

\* The state a segment of tick p works on: the slots' fields, the tick, the
\* coordinator's lastUseDate, how the tick ended (out) if it did, and the
\* outcome of the call just made (res).
Cur(p) ==
  [value |-> value, last_update |-> last_update,
   stale |-> manually_marked_stale, lock |-> lock, inflight |-> inflight,
   t |-> tk[p], lastUse |-> co.lastUseDate, out |-> "none",
   res |-> Suspended]

\* ValueCacher methods on such a state
ValueIfNotStaleIn(st, s) ==
  IF st.stale[s] \/ st.value[s] = None \/ st.last_update[s] = None
  THEN None
  ELSE IF refresh_after[s] # None
          /\ (refresh_after[s][1] <= 0
              \/ now - st.last_update[s][1] > refresh_after[s][1])
       THEN None
       ELSE st.value[s]

ValueIfNotDiscardedIn(st, s) ==
  IF st.value[s] = None \/ st.last_update[s] = None
  THEN None
  ELSE IF discard_after[s] # None
          /\ (discard_after[s][1] <= 0
              \/ now - st.last_update[s][1] > discard_after[s][1])
       THEN None
       ELSE st.value[s]

SetIn(st, s, v) ==
  [st EXCEPT !.value[s] = Some(v), !.last_update[s] = Some(now),
             !.stale[s] = FALSE]

MarkAsStaleIn(st, s) == [st EXCEPT !.stale[s] = TRUE]

\* The body of "async with self._lock" in get_or_update, run by tick p at
\* the head of the lock queue of slot s.
LockedIn(st, p, s) ==
  IF ValueIfNotStaleIn(st, s) # None
  THEN [st EXCEPT !.lock[s] = Release(@, p),
                  !.res = Gave(ValueIfNotStaleIn(st, s)[1])]
  ELSE IF st.inflight[s] # None
  THEN [st EXCEPT !.t.pc = "await_inflight", !.t.slot = s, !.res = Suspended]
  ELSE [st EXCEPT !.inflight[s] = Some(p),
                  !.t.pc = "fetch", !.t.slot = s, !.res = Suspended,
                  !.t.h.histFetches = IF s = "records" THEN @ + 1 ELSE @]

\* get_or_update(fetch) on slot s from its first line to its return or its
\* first suspension.
GetOrUpdateIn(st, p, s) ==
  IF ValueIfNotStaleIn(st, s) # None
  THEN [st EXCEPT !.res = Gave(ValueIfNotStaleIn(st, s)[1])]
  ELSE IF st.lock[s] = <<>>
  THEN LockedIn([st EXCEPT !.lock[s] = <<p>>], p, s)
  ELSE [st EXCEPT !.lock[s] = Append(@, p),
                  !.t.pc = "wait_lock", !.t.slot = s, !.res = Suspended]

\* "await self._inflight" is over with outcome o (a payload, or an error):
\* set and return, or fall back, or raise; finally; release of the lock.
AwaitOverIn(st, p, s, o) ==
  LET own == st.t.pc = "fetch"
      fallback == ValueIfNotDiscardedIn(st, s)
      st1 == IF o.ok /\ own THEN SetIn(st, s, o.val) ELSE st
      st2 == [st1 EXCEPT !.inflight[s] = IF own THEN None ELSE @,
                         !.lock[s] = Release(@, p)]
  IN [st2 EXCEPT !.res = IF o.ok THEN Gave(o.val)
                         ELSE IF fallback # None THEN Gave(fallback[1])
                         ELSE Raised(o.err),
                 !.t.h.propsAuthFail = @ \/ (s = "props" /\ ~o.ok
                                              /\ o.err = "auth"),
                 !.t.h.propsOK = @ \/ (s = "props" /\ o.ok)]

\* The tick ends: a snapshot is returned or UpdateFailed is raised.
EndTick(st, how) == [st EXCEPT !.out = how]

\* return NeakasaAPIData(...): lines 149-173 in the first attempt, lines
\* 190-212 and 232-254 in the retries.
Construct(st) ==
  LET kwargs == IF st.t.phase = "first" THEN FirstKwargs ELSE RetryKwargs
  IN IF NeakasaAPIData(kwargs) = "ok"
     THEN EndTick([st EXCEPT !.t.h.history =
                               IF st.t.phase = "first" THEN @ ELSE "ok"],
                  "snapshot")
     ELSE EndTick([st EXCEPT !.t.h.history =
                               IF st.t.phase = "first" THEN @ ELSE "ok"],
                  "UpdateFailed")

\* An except branch that reconnects after every APIConnectionError.
HandleError_reconnect_all(st, err) ==
  IF st.t.phase = "first"
  THEN [st EXCEPT !.t.pc = "reconnect", !.t.phase = "retry",
                  !.t.h.firstErr = err, !.t.h.reconnects = @ + 1]
  ELSE EndTick([st EXCEPT !.t.h.history =
                            IF st.t.h.retry = "ok" THEN "fail" ELSE @],
               "UpdateFailed")

\* An exception reaches the except clauses of async_update_data.  In the
\* first attempt APIAuthError and the "identityId is blank"
\* APIConnectionError start the forced reconnect (the latter after
\* clear_shared_api); any other APIConnectionError raises UpdateFailed.
\* Inside an except branch every exception raises UpdateFailed.
HandleError(st, err) ==
  IF st.t.phase = "first" /\ err \in {"auth", "identity"}
  THEN [st EXCEPT !.t.pc = "reconnect", !.t.phase = "retry",
                  !.t.h.firstErr = err, !.t.h.reconnects = @ + 1]
  ELSE EndTick([st EXCEPT !.t.h.firstErr =
                            IF st.t.phase = "first" THEN err ELSE @,
                          !.t.h.history =
                            IF st.t.h.retry = "ok" THEN "fail" ELSE @],
               "UpdateFailed")

\* Lines 139-144 (184-187, 226-229): compare the last-use time, mark the
\* history cache stale, record the time.  fetched: the device data come
\* from a fetch that succeeded in this tick, not from the cache's fallback.
AfterProps(st, time, fetched) ==
  LET changed == st.lastUse # Some(time)
      fresh == /\ st.value["records"] # None
               /\ st.last_update["records"] # None
               /\ now - st.last_update["records"][1] < ThirtyMinutes
      st1 == IF changed THEN MarkAsStaleIn(st, "records") ELSE st
  IN [st1 EXCEPT !.lastUse = Some(time),
                 !.t.h.compares = IF fetched THEN @ + 1 ELSE @,
                 !.t.h.changed = @ \/ (fetched /\ changed),
                 !.t.h.sameFresh = @ \/ (fetched /\ ~changed /\ fresh)]

\* records = await self._getRecords() came back (res): build the snapshot,
\* or handle the exception.
AfterRecords(st) ==
  IF st.res.kind = "suspended" THEN st
  ELSE IF st.res.kind = "raised" THEN HandleError(st, st.res.val[1])
  ELSE Construct(st)

\* Control is back in the tick after get_or_update on slot st.t.slot:
\* the code runs on to the next suspension or to the end of the tick.
Resume(st, p, fetched) ==
  IF st.res.kind = "suspended" THEN st
  ELSE IF st.res.kind = "raised" THEN HandleError(st, st.res.val[1])
  ELSE IF st.t.slot = "props"
  THEN AfterRecords(GetOrUpdateIn(AfterProps(st, st.res.val[1], fetched),
                                  p, "records"))
  ELSE Construct(st)

\* The segment's result becomes the next state; a tick that ended is idle.
Commit(p, st) ==
  /\ value' = st.value
  /\ last_update' = st.last_update
  /\ manually_marked_stale' = st.stale
  /\ lock' = st.lock
  /\ inflight' = st.inflight
  /\ tk' = [tk EXCEPT ![p] = IF st.out = "none" THEN st.t ELSE IdleTick]
  /\ co' = [co EXCEPT !.lastUseDate = st.lastUse]
  /\ tev' = IF st.out = "none" THEN NoTEv
            ELSE [proc |-> p, how |-> st.out, h |-> st.t.h]
  /\ UNCHANGED <<refresh_after, discard_after, now, cpc, cslot, task,
                 awaiting, ccall, markPending, fetchedOK, ev>>
  /\ UNCHANGED <<regVars, cipherVars, entryVars, liveVars>>

\* What a remote call can end with: a payload, or an error.
Ok(v) == [ok |-> TRUE, val |-> v, err |-> "none"]
Err(x) == [ok |-> FALSE, val |-> "none", err |-> x]
Outcomes(s) ==
  {Ok(v) : v \in IF s = "props" THEN LastUseTimes ELSE Histories}
    \cup {Err(x) : x \in FetchErrors}

\* The segments of async_update_data run by tick p, as states.
\* async_update_data is called: devicedata = await
\* self._getDeviceProperties(), up to the first suspension.
TickBegun(p) == Resume(GetOrUpdateIn(Cur(p), p, "props"), p, FALSE)

\* A tick that waited for a slot's lock is handed it.
LockTaken(p) == Resume(LockedIn(Cur(p), p, tk[p].slot), p, FALSE)

\* The fetch a tick awaits inside get_or_update ends with outcome o.
FetchOver(p, o) ==
  Resume(AwaitOverIn(Cur(p), p, tk[p].slot, o), p,
         o.ok /\ tk[p].pc = "fetch")

\* await force_reconnect_api(...) returns a session: the retry starts with
\* await api.getDeviceProperties(self.deviceid).
Reconnected(p) ==
  [Cur(p) EXCEPT !.t.pc = "retry_fetch", !.t.h.reconnect = "ok",
                 !.t.h.retries = @ + 1]

\* await force_reconnect_api(...) raises.
ReconnectFailed(p) ==
  EndTick([Cur(p) EXCEPT !.t.h.reconnect = "fail"], "UpdateFailed")

\* The retried api.getDeviceProperties ends with outcome o.
RetryOver(p, o) ==
  IF o.ok
  THEN AfterRecords(
         GetOrUpdateIn(
           AfterProps([Cur(p) EXCEPT !.t.h.retry = "ok",
                                     !.t.h.propsOK = TRUE],
                      o.val, TRUE),
           p, "records"))
  ELSE EndTick([Cur(p) EXCEPT !.t.h.retry = "fail"], "UpdateFailed")

\* The steps of a tick: each runs one segment and commits its result.
TickBegins(p) ==
  /\ tk[p].pc = "idle"
  /\ Commit(p, TickBegun(p))

TLockGranted(p) ==
  /\ tk[p].pc = "wait_lock"
  /\ lock[tk[p].slot] # <<>> /\ Head(lock[tk[p].slot]) = p
  /\ Commit(p, LockTaken(p))

TFetchEnds(p, o) ==
  /\ tk[p].pc \in {"fetch", "await_inflight"}
  /\ o \in Outcomes(tk[p].slot)
  /\ Commit(p, FetchOver(p, o))

ReconnectReturns(p) ==
  /\ tk[p].pc = "reconnect"
  /\ Commit(p, Reconnected(p))

ReconnectRaises(p) ==
  /\ tk[p].pc = "reconnect"
  /\ Commit(p, ReconnectFailed(p))

RetryFetchEnds(p, o) ==
  /\ tk[p].pc = "retry_fetch"
  /\ o \in Outcomes("props")
  /\ Commit(p, RetryOver(p, o))

\* datetime.now(timezone.utc) advances.
TimePasses ==
  /\ now < MaxTime
  /\ now' = now + 1
  /\ tev' = NoTEv
  /\ UNCHANGED <<refresh_after, discard_after, manually_marked_stale, value,
                 last_update, lock, inflight, cpc, cslot, task, awaiting,
                 ccall, markPending, fetchedOK, ev, tk, co>>
  /\ UNCHANGED <<regVars, cipherVars, entryVars, liveVars>>

\* NeakasaCoordinator.__init__: the two slots with their windows, no
\* recorded last-use time; no tick is running.
TickInit ==
  /\ refresh_after = [s \in TickSlots |->
                        IF s = "props" THEN Some(0) ELSE Some(ThirtyMinutes)]
  /\ discard_after = [s \in TickSlots |->
                        IF s = "props" THEN Some(ThirtyMinutes)
                        ELSE Some(FourHours)]
  /\ manually_marked_stale = [s \in TickSlots |-> FALSE]
  /\ value = [s \in TickSlots |-> None]
  /\ last_update = [s \in TickSlots |-> None]
  /\ lock = [s \in TickSlots |-> <<>>]
  /\ inflight = [s \in TickSlots |-> None]
  /\ now = 0
  /\ cpc = <<>> /\ cslot = <<>> /\ task = <<>> /\ awaiting = <<>>
  /\ ccall = <<>> /\ markPending = <<>> /\ fetchedOK = <<>> /\ ev = NoEv
  /\ tk = [p \in Procs |-> IdleTick]
  /\ co = [lastUseDate |-> None, deviceName |-> None]
  /\ tev = NoTEv

InitTick == TickInit /\ RegIdle /\ CipherIdle /\ EntryIdle /\ LiveIdle

NextTick ==
  \/ \E p \in Procs : TickBegins(p)
  \/ \E p \in Procs : TLockGranted(p)
  \/ \E p \in Procs, s \in TickSlots : \E o \in Outcomes(s) : TFetchEnds(p, o)
  \/ \E p \in Procs : ReconnectReturns(p)
  \/ \E p \in Procs : ReconnectRaises(p)
  \/ \E p \in Procs, o \in Outcomes("props") : RetryFetchEnds(p, o)
  \/ TimePasses

SpecTick == InitTick /\ [][NextTick]_vars

\* ---------------------------------------------------------------------
\*  Properties of the poll tick (checked under SpecTick)
\* ---------------------------------------------------------------------

TickEnded == tev.how # "none"

\* C11 as stated: a tick whose first attempt ends with an authentication
\* error or a connection error makes exactly one forced reconnect, then
\* exactly one retry of the fetch if the reconnect succeeded; it ends with
\* UpdateFailed when the reconnect or the retry fails; no tick makes more
\* than one forced reconnect.
C11_OneReconnectOneRetry ==
  TickEnded =>
    /\ tev.h.reconnects <= 1
    /\ tev.h.firstErr # "none" =>
         /\ tev.h.reconnects = 1
         /\ tev.h.reconnect = "ok" => tev.h.retries = 1
         /\ tev.h.reconnect = "fail" => tev.h.retries = 0
         /\ (\/ tev.h.reconnect = "fail" \/ tev.h.retry = "fail"
             \/ tev.h.history = "fail") => tev.how = "UpdateFailed"

\* C11 amended: that holds for an authentication error and for the
\* "identityId is blank" connection error; any other connection error ends
\* the tick with UpdateFailed at once, without reconnect or retry.
C11_OneReconnectOneRetryForAuthErrors ==
  TickEnded =>
    /\ tev.h.reconnects <= 1
    /\ tev.h.firstErr \in {"auth", "identity"} =>
         /\ tev.h.reconnects = 1
         /\ tev.h.reconnect = "ok" => tev.h.retries = 1
         /\ tev.h.reconnect = "fail" => tev.h.retries = 0
         /\ (\/ tev.h.reconnect = "fail" \/ tev.h.retry = "fail"
             \/ tev.h.history = "fail") => tev.how = "UpdateFailed"
    /\ tev.h.firstErr = "conn" =>
         /\ tev.h.reconnects = 0 /\ tev.h.retries = 0
         /\ tev.how = "UpdateFailed"
    /\ tev.h.firstErr = "none" => (tev.h.reconnects = 0 /\ tev.h.retries = 0)

\* A tick reconnected once after an authentication error, and its retry
\* failed.
C11_Witness ==
  /\ tev.how = "UpdateFailed"
  /\ tev.h.firstErr = "auth"
  /\ tev.h.reconnects = 1 /\ tev.h.reconnect = "ok"
  /\ tev.h.retries = 1 /\ tev.h.retry = "fail"

\* C12: when the first attempt fails with an authentication error or the
\* identityId connection error, and the forced reconnect, the retried device
\* fetch and the history read all succeed, the tick returns a snapshot.
C12_SuccessfulRetryReturnsSnapshot ==
  (/\ TickEnded
   /\ tev.h.firstErr \in {"auth", "identity"}
   /\ tev.h.reconnect = "ok" /\ tev.h.retry = "ok" /\ tev.h.history = "ok")
    => tev.how = "snapshot"

\* C19: a tick in which a device-property fetch raised an authentication
\* error makes a forced reconnect.
C19_AuthErrorForcesReconnect ==
  (TickEnded /\ tev.h.propsAuthFail) => tev.h.reconnects >= 1

\* C20: in a tick whose device-property fetch succeeded, a changed last-use
\* time makes the tick call the history fetch; an unchanged one with a
\* cached history younger than 30 minutes makes it call none.
C20_HistoryFetchedIffLastUseChanged ==
  (TickEnded /\ tev.h.propsOK /\ tev.h.compares = 1) =>
     /\ tev.h.changed => tev.h.histFetches >= 1
     /\ tev.h.sameFresh => tev.h.histFetches = 0

\* =====================================================================
\*  Config entries: async_setup_entry, async_unload_entry (__init__.py)
\* =====================================================================

EntryIds == {"e1", "e2", "e3"}
\* config_entry.data[CONF_USERNAME], [CONF_PASSWORD]: two entries of one
\* account and one entry of another
ConfigEntries ==
  [e \in EntryIds |->
     IF e = "e3" THEN [username |-> "u2", password |-> "pw2"]
     ELSE [username |-> "u1", password |-> "pw1"]]
\* credentials_key = f"{username}:{password}"
credentials_key(c) == c.username \o ":" \o c.password
EntryKeys == {credentials_key(ConfigEntries[e]) : e \in EntryIds}
\* The coordinator whose calls of the registry this specification follows,
\* and the number of sessions it may create.
Poller == CHOOSE p \in Procs : TRUE
MaxLogins == 1

\* The last call of clear_shared_api (history): its key, whether the key
\* had neither entry when it was called, whether it raised; n tells two
\* calls apart.
NoLEv == [key |-> None, absent |-> FALSE, raised |-> FALSE, n |-> 0]
Cleared(k) ==
  [key |-> Some(k),
   absent |-> shared_apis[k] = None /\ shared_locks[k] = None,
   raised |-> ClearedMaps(shared_apis, shared_locks, k).raised,
   n |-> 1 - lev.n]

\* The loop of lines 159-165 that looks for every other entry.
other_devices_using_creds_never(data, c) == FALSE

\* The loop of lines 159-165 over hass.data[DOMAIN] (the unloaded entry is
\* already popped): some coordinator has this username and this password.
other_devices_using_creds(data, c) ==
  \E e \in DOMAIN data :
     /\ data[e] # None
     /\ data[e][1].username = c.username
     /\ data[e][1].password = c.password

\* async_setup_entry up to "await coordinator.async_config_entry_first_refresh()"
SetupBegins(e) ==
  /\ epc[e] = "not_loaded"
  /\ epc' = [epc EXCEPT ![e] = "first_refresh"]
  /\ UNCHANGED <<hass_data, lev>>
  /\ UNCHANGED <<cacheVars, regVars, cipherVars, tickVars, liveVars>>

\* The first refresh returns: hass.data[DOMAIN][entry_id] = RuntimeData(...),
\* then "await async_forward_entry_setups".
FirstRefreshReturns(e) ==
  /\ epc[e] = "first_refresh"
  /\ hass_data' = [hass_data EXCEPT ![e] = Some(ConfigEntries[e])]
  /\ epc' = [epc EXCEPT ![e] = "forward_setups"]
  /\ UNCHANGED lev
  /\ UNCHANGED <<cacheVars, regVars, cipherVars, tickVars, liveVars>>

\* The first refresh raises (ConfigEntryNotReady): the entry is not set up.
FirstRefreshRaises(e) ==
  /\ epc[e] = "first_refresh"
  /\ epc' = [epc EXCEPT ![e] = "not_loaded"]
  /\ UNCHANGED <<hass_data, lev>>
  /\ UNCHANGED <<cacheVars, regVars, cipherVars, tickVars, liveVars>>

\* async_forward_entry_setups returns; async_setup_entry returns True.
ForwardSetupsReturn(e) ==
  /\ epc[e] = "forward_setups"
  /\ epc' = [epc EXCEPT ![e] = "loaded"]
  /\ UNCHANGED <<hass_data, lev>>
  /\ UNCHANGED <<cacheVars, regVars, cipherVars, tickVars, liveVars>>

\* async_unload_entry up to "await async_unload_platforms".
UnloadBegins(e) ==
  /\ epc[e] = "loaded"
  /\ epc' = [epc EXCEPT ![e] = "unload_platforms"]
  /\ UNCHANGED <<hass_data, lev>>
  /\ UNCHANGED <<cacheVars, regVars, cipherVars, tickVars, liveVars>>

\* async_unload_platforms returns unload_ok; lines 149-172.
UnloadPlatformsReturn(e, unload_ok) ==
  LET c == hass_data[e][1]
      popped == [hass_data EXCEPT ![e] = None]
  IN
  /\ epc[e] = "unload_platforms"
  /\ IF unload_ok
     THEN /\ hass_data' = popped
          /\ epc' = [epc EXCEPT ![e] = "not_loaded"]
          /\ IF ~other_devices_using_creds(popped, c)
             THEN /\ clear_shared_api(credentials_key(c))
                  /\ lev' = Cleared(credentials_key(c))
             ELSE /\ UNCHANGED lev
                  /\ UNCHANGED <<cacheVars, regVars, cipherVars, tickVars, liveVars>>
     ELSE /\ epc' = [epc EXCEPT ![e] = "failed_unload"]
          /\ UNCHANGED <<hass_data, lev>>
          /\ UNCHANGED <<cacheVars, regVars, cipherVars, tickVars, liveVars>>

\* Some entry's coordinator exists and has the credentials of key k.
HasCoordinator(k) ==
  \E e \in EntryIds :
     epc[e] # "not_loaded" /\ credentials_key(ConfigEntries[e]) = k

\* clear_shared_api called by a coordinator (coordinator.py line 220).
CoordinatorClears(k) ==
  /\ HasCoordinator(k)
  /\ clear_shared_api(k)
  /\ lev' = Cleared(k)
  /\ UNCHANGED <<hass_data, epc>>

\* get_shared_api called by a coordinator (coordinator.py lines 113-128).
CoordinatorGets(k) ==
  /\ HasCoordinator(k)
  /\ nextSession <= MaxLogins
  /\ get_shared_api(Poller, k)

\* Module import; no entry is set up.
EntriesInit ==
  /\ RegistryInitFor(EntryKeys)
  /\ hass_data = [e \in EntryIds |-> None]
  /\ epc = [e \in EntryIds |-> "not_loaded"]
  /\ lev = NoLEv

InitEntries ==
  EntriesInit /\ CacheIdle /\ CipherIdle /\ TickIdle /\ LiveIdle

NextEntries ==
  \/ \E e \in EntryIds : SetupBegins(e)
  \/ \E e \in EntryIds : FirstRefreshReturns(e)
  \/ \E e \in EntryIds : FirstRefreshRaises(e)
  \/ \E e \in EntryIds : ForwardSetupsReturn(e)
  \/ \E e \in EntryIds : UnloadBegins(e)
  \/ \E e \in EntryIds, unload_ok \in BOOLEAN :
        UnloadPlatformsReturn(e, unload_ok)
  \/ \E k \in DOMAIN shared_apis : CoordinatorClears(k)
  \/ \E k \in DOMAIN shared_apis : CoordinatorGets(k)
  \/ ConnectReturns(Poller)
  \/ ConnectRaises(Poller)

SpecEntries == InitEntries /\ [][NextEntries]_vars

\* ---------------------------------------------------------------------
\*  Properties of clear_shared_api and async_unload_entry (SpecEntries)
\* ---------------------------------------------------------------------

\* clear_shared_api was called in this step, for key k.
ClearStep(k) == lev' # lev /\ lev'.key = Some(k)

\* C22: clear_shared_api(K) removes the session entry and the lock entry of
\* K and leaves the entries of every other identity unchanged; it raises
\* nothing, and when K has no entry it changes nothing, so that a second
\* call in a row has no further effect.
C22_ClearRemovesOnlyItsEntries ==
  [][\A k \in DOMAIN shared_apis :
       ClearStep(k) =>
         /\ shared_apis'[k] = None /\ shared_locks'[k] = None
         /\ \A k2 \in DOMAIN shared_apis \ {k} :
              /\ shared_apis'[k2] = shared_apis[k2]
              /\ shared_locks'[k2] = shared_locks[k2]
         /\ ~lev'.raised
         /\ lev'.absent =>
              (shared_apis' = shared_apis /\ shared_locks' = shared_locks)
         /\ (shared_apis'[k] = None /\ shared_locks'[k] = None) =>
              /\ ClearedMaps(shared_apis', shared_locks', k).apis
                   = shared_apis'
              /\ ClearedMaps(shared_apis', shared_locks', k).locks
                   = shared_locks'
              /\ ~ClearedMaps(shared_apis', shared_locks', k).raised]_vars

\* The last clear_shared_api found its identity without entries and raised
\* nothing, while another identity has a session and a lock registered.
C22_Witness ==
  /\ lev.key # None /\ lev.absent /\ ~lev.raised
  /\ \E k2 \in DOMAIN shared_apis :
        /\ Some(k2) # lev.key
        /\ shared_apis[k2] # None /\ shared_locks[k2] # None

\* The await of async_unload_platforms of entry e ends in this step.
UnloadStep(e) == epc[e] = "unload_platforms" /\ epc'[e] # "unload_platforms"

\* Another entry that is in hass.data[DOMAIN] has the username and the
\* password of entry e.
OtherLoadedWithSameCreds(e) ==
  \E e2 \in EntryIds \ {e} :
     /\ hass_data[e2] # None
     /\ hass_data[e2][1].username = hass_data[e][1].username
     /\ hass_data[e2][1].password = hass_data[e][1].password

LiveKey == CHOOSE k \in Keys : TRUE
\* invokeService(service)
Services == {"clean", "level", "other"}
\* devices[0]['deviceName']
DeviceNames == {"n"}
\* What a remote call of a tick ends with here: the device reports one
\* last-use time.
LiveOutcomes(s) ==
  {Ok(v) : v \in IF s = "props" THEN {CHOOSE t \in LastUseTimes : TRUE}
                 ELSE Histories}
    \cup {Err(x) : x \in FetchErrors}

\* What a caller is in (op), where it stands (at) and the remote call it is
\* about to make or is waiting for (req).  at is "slot_lock" (waiting for a
\* cache slot's lock), "get_api" (about to call the registry), "registry"
\* (suspended inside the registry) or "remote" (waiting for the remote
\* call).
NoJob == [op |-> "none", at |-> "none", req |-> "none"]
JobAt(op, at, req) == [op |-> op, at |-> at, req |-> req]

\* Where tick t stands after a segment of async_update_data; name is
\* self._deviceName.  The fetch of the device properties and the fetch of
\* the history call get_shared_api (the latter for the device list first,
\* while the name is unknown); an except branch calls force_reconnect_api,
\* after clear_shared_api when the error was "identityId is blank".
JobAfter(t, name) ==
  IF t.pc = "fetch"
  THEN JobAt("tick", "get_api",
             IF t.slot = "props" THEN "getDeviceProperties"
             ELSE IF name = None THEN "getDevices" ELSE "getRecords")
  ELSE IF t.pc = "reconnect"
  THEN JobAt("tick", "get_api",
             IF t.h.firstErr = "identity" THEN "clear_connect" ELSE "connect")
  ELSE IF t.pc = "retry_fetch"
  THEN JobAt("tick", "remote", "getDeviceProperties")
  ELSE JobAt("tick", "slot_lock", "none")

Reconnecting(j) == j.req \in {"connect", "clear_connect"}

\* NeakasaAPI(...): a new object, named by the least number nothing refers to
FreeSessions(apis) ==
  {i \in SessionIds : /\ \A k \in DOMAIN apis : apis[k] # Some(i)
                      /\ \A q \in Procs : rapi[q] # Some(i)}
NewSession(apis) ==
  CHOOSE i \in FreeSessions(apis) : \A j \in FreeSessions(apis) : i <= j

\* The body of "async with _shared_locks[credentials_key]" up to
\* "await api.connect", run by p holding lock object lk (queue q, p at its
\* head); apis is the session map as the caller left it.
LockedRegistry(p, k, lk, q, apis) ==
  IF apis[k] # None /\ Valid(apis[k][1])
  THEN /\ shared_apis' = apis
       /\ connected' = Norm(connected, apis)
       /\ iotToken' = Norm(iotToken, apis)
       /\ lockq' = [lockq EXCEPT ![lk] = Release(q, p)]
       /\ rpc' = [rpc EXCEPT ![p] = "idle"]
       /\ rkey' = [rkey EXCEPT ![p] = None]
       /\ rlock' = [rlock EXCEPT ![p] = None]
       /\ UNCHANGED rapi
  ELSE /\ shared_apis' = [apis EXCEPT ![k] = None]
       /\ connected' = Norm(connected, [apis EXCEPT ![k] = None])
       /\ iotToken' = Norm(iotToken, [apis EXCEPT ![k] = None])
       /\ lockq' = [lockq EXCEPT ![lk] = q]
       /\ rpc' = [rpc EXCEPT ![p] = "connecting"]
       /\ rkey' = [rkey EXCEPT ![p] = Some(k)]
       /\ rlock' = [rlock EXCEPT ![p] = Some(lk)]
       /\ rapi' = [rapi EXCEPT ![p] =
                     Some(NewSession([apis EXCEPT ![k] = None]))]

\* get_shared_api / force_reconnect_api from the first line to the first
\* suspension; apis and locks are the maps as the caller left them.
EnterRegistry(p, k, apis, locks) ==
  /\ rpc[p] = "idle"
  /\ locks[k] = None => FreeLocks # {}
  /\ LET lk == IF locks[k] # None THEN locks[k][1] ELSE FreshLock
     IN /\ shared_locks' = [locks EXCEPT ![k] = Some(lk)]
        /\ IF lockq[lk] = <<>>
           THEN LockedRegistry(p, k, lk, <<p>>, apis)
           ELSE /\ lockq' = [lockq EXCEPT ![lk] = Append(lockq[lk], p)]
                /\ rpc' = [rpc EXCEPT ![p] = "wait_lock"]
                /\ rkey' = [rkey EXCEPT ![p] = Some(k)]
                /\ rlock' = [rlock EXCEPT ![p] = Some(lk)]
                /\ shared_apis' = apis
                /\ connected' = Norm(connected, apis)
                /\ iotToken' = Norm(iotToken, apis)
                /\ UNCHANGED rapi
  /\ UNCHANGED <<nextSession, rcall, cleared, reusedSess, rev>>

\* The registry call job j makes: get_shared_api, force_reconnect_api, or
\* clear_shared_api followed by force_reconnect_api.
RegistryCall(p, j) ==
  IF j.req = "connect"
  THEN EnterRegistry(p, LiveKey, [shared_apis EXCEPT ![LiveKey] = None],
                     shared_locks)
  ELSE IF j.req = "clear_connect"
  THEN EnterRegistry(
         p, LiveKey,
         [ClearedMaps(shared_apis, shared_locks, LiveKey).apis
            EXCEPT ![LiveKey] = None],
         ClearedMaps(shared_apis, shared_locks, LiveKey).locks)
  ELSE EnterRegistry(p, LiveKey, shared_apis, shared_locks)

\* A caller that waited for the registry lock is handed it.
GrantRegistry(p) ==
  /\ rpc[p] = "wait_lock"
  /\ lockq[rlock[p][1]] # <<>> /\ Head(lockq[rlock[p][1]]) = p
  /\ LockedRegistry(p, rkey[p][1], rlock[p][1], lockq[rlock[p][1]],
                    shared_apis)
  /\ UNCHANGED <<shared_locks, nextSession, rcall, cleared, reusedSess, rev>>

\* "await api.connect(username, password)" returns (the session is stored in
\* the map) or raises; the lock is released.
ConnectOver(p, ok) ==
  /\ rpc[p] = "connecting"
  /\ LET k == rkey[p][1]
         sid == rapi[p][1]
         apis == IF ok THEN [shared_apis EXCEPT ![k] = Some(sid)]
                 ELSE shared_apis
     IN /\ shared_apis' = apis
        /\ connected' =
             Norm(IF ok THEN [connected EXCEPT ![sid] = TRUE] ELSE connected,
                  apis)
        /\ iotToken' =
             Norm(IF ok THEN [iotToken EXCEPT ![sid] = TRUE] ELSE iotToken,
                  apis)
  /\ lockq' = [lockq EXCEPT ![rlock[p][1]] = Release(lockq[rlock[p][1]], p)]
  /\ rpc' = [rpc EXCEPT ![p] = "idle"]
  /\ rkey' = [rkey EXCEPT ![p] = None]
  /\ rlock' = [rlock EXCEPT ![p] = None]
  /\ rapi' = [rapi EXCEPT ![p] = None]
  /\ UNCHANGED <<shared_locks, nextSession, rcall, cleared, reusedSess, rev>>

\* Where tick p stands after the segment that ended in state st.
JobOf(st) == IF st.out = "none" THEN JobAfter(st.t, co.deviceName) ELSE NoJob

\* The result st of a segment of tick p becomes the next state of the
\* cache and the tick; the tick's history is dropped.
TickPart(p, st) ==
  /\ value' = st.value
  /\ last_update' = st.last_update
  /\ manually_marked_stale' = st.stale
  /\ lock' = st.lock
  /\ inflight' = st.inflight
  /\ tk' = [tk EXCEPT ![p] = IF st.out = "none"
                             THEN [st.t EXCEPT !.h = NoTickHist]
                             ELSE IdleTick]
  /\ co' = [co EXCEPT !.lastUseDate = st.lastUse]
  /\ UNCHANGED <<refresh_after, discard_after, now, cpc, cslot, task,
                 awaiting, ccall, markPending, fetchedOK, ev, tev>>
  /\ UNCHANGED <<cipherVars, entryVars>>

\* A segment of tick p that follows a step inside the registry: a registry
\* call it runs into is made in the next step.
TickMoves(p, st) ==
  /\ TickPart(p, st)
  /\ job' = [job EXCEPT ![p] = JobOf(st)]

\* A segment of tick p with the registry call it runs into, if any, up to
\* the suspension inside the registry or at the remote call.
TickRuns(p, st) ==
  /\ TickPart(p, st)
  /\ IF JobOf(st).at = "get_api"
     THEN /\ RegistryCall(p, JobOf(st))
          /\ job' = [job EXCEPT ![p] =
                       [JobOf(st) EXCEPT !.at = IF rpc'[p] # "idle"
                                               THEN "registry"
                                               ELSE "remote"]]
     ELSE /\ job' = [job EXCEPT ![p] = JobOf(st)]
          /\ UNCHANGED regVars

\* Caller p goes on as job j; the cache and the ticks stay as they are.
JobMoves(p, j) ==
  /\ job' = [job EXCEPT ![p] = j]
  /\ UNCHANGED <<cacheVars, tickVars, cipherVars, entryVars>>

\* The registry call of job j returned a session: a tick's except branch
\* goes on to the retried fetch, invokeService with an unknown service
\* raises, every other caller goes on to its remote call.
ApiReturned(p, j) ==
  IF Reconnecting(j) THEN TickMoves(p, Reconnected(p))
  ELSE IF j.req = "none" THEN JobMoves(p, NoJob)
  ELSE JobMoves(p, [j EXCEPT !.at = "remote"])

\* The registry call of job j raised x: the fetch of a tick raises it, the
\* except branch of a tick raises UpdateFailed, setProperty and
\* invokeService raise it.
ApiRaised(p, j, x) ==
  IF j.op # "tick" THEN JobMoves(p, NoJob)
  ELSE IF Reconnecting(j) THEN TickMoves(p, ReconnectFailed(p))
  ELSE TickMoves(p, FetchOver(p, Err(x)))

\* After a step of p inside the registry: p is still suspended there, or
\* the call returned.
RegistryStepped(p, j) ==
  IF rpc'[p] # "idle" THEN JobMoves(p, [j EXCEPT !.at = "registry"])
  ELSE ApiReturned(p, j)

\* async_update_data is called.
PollTick(p) ==
  /\ job[p] = NoJob
  /\ TickRuns(p, TickBegun(p))

\* A tick that waited for a slot's lock is handed it.
SlotLockGranted(p) ==
  /\ job[p].at = "slot_lock"
  /\ lock[tk[p].slot] # <<>> /\ Head(lock[tk[p].slot]) = p
  /\ TickRuns(p, LockTaken(p))

\* setProperty(key, value) up to the first suspension.
setProperty(p) ==
  /\ job[p] = NoJob
  /\ RegistryCall(p, JobAt("setProperty", "get_api", "setDeviceProperties"))
  /\ RegistryStepped(p, JobAt("setProperty", "get_api",
                              "setDeviceProperties"))

\* The remote call invokeService(service) makes.
ServiceCall(service) ==
  IF service \in {"clean", "level"} THEN "service" ELSE "none"

\* invokeService(service) up to the first suspension.
invokeService(p, service) ==
  /\ job[p] = NoJob
  /\ RegistryCall(p, JobAt("invokeService", "get_api", ServiceCall(service)))
  /\ RegistryStepped(p, JobAt("invokeService", "get_api",
                              ServiceCall(service)))

\* The fetch of a tick calls get_shared_api; an except branch calls
\* force_reconnect_api.
CallsRegistry(p) ==
  /\ job[p].at = "get_api"
  /\ RegistryCall(p, job[p])
  /\ RegistryStepped(p, job[p])

\* A caller that waited for the registry lock is handed it.
RegistryLockGranted(p) ==
  /\ job[p].at = "registry"
  /\ GrantRegistry(p)
  /\ RegistryStepped(p, job[p])

\* await api.connect(...) inside the registry returns.
ConnectReturned(p) ==
  /\ job[p].at = "registry"
  /\ ConnectOver(p, TRUE)
  /\ ApiReturned(p, job[p])

\* await api.connect(...) inside the registry raises x (which error it is
\* matters to the fetch of a tick only).
ConnectRaised(p, x) ==
  /\ job[p].at = "registry"
  /\ (job[p].op = "tick" /\ ~Reconnecting(job[p])) \/ x = "conn"
  /\ ConnectOver(p, FALSE)
  /\ ApiRaised(p, job[p], x)

\* await api.getDevices() returns a list with the device in it: the name
\* is kept and the fetch goes on to get_shared_api.
DeviceListReturns(p, name) ==
  /\ job[p].at = "remote" /\ job[p].req = "getDevices"
  /\ co' = [co EXCEPT !.deviceName = Some(name)]
  /\ RegistryCall(p, JobAt("tick", "get_api", "getRecords"))
  /\ job' = [job EXCEPT ![p] =
               JobAt("tick",
                     IF rpc'[p] # "idle" THEN "registry" ELSE "remote",
                     "getRecords")]
  /\ UNCHANGED <<tk, tev>>
  /\ UNCHANGED <<cacheVars, cipherVars, entryVars>>

\* The remote call of a tick's fetch ends with outcome o; api.getDevices()
\* that raises, or returns a list without the device, ends the fetch with
\* an error.
FetchEnds(p, o) ==
  /\ job[p].op = "tick" /\ job[p].at = "remote" /\ tk[p].pc = "fetch"
  /\ o \in LiveOutcomes(tk[p].slot)
  /\ job[p].req = "getDevices" => ~o.ok
  /\ TickRuns(p, FetchOver(p, o))

\* The retried api.getDeviceProperties of an except branch ends.
RetryEnds(p, o) ==
  /\ job[p].op = "tick" /\ job[p].at = "remote" /\ tk[p].pc = "retry_fetch"
  /\ o \in LiveOutcomes("props")
  /\ TickRuns(p, RetryOver(p, o))

\* The remote call of setProperty or invokeService returns or raises:
\* either way the call is over.
CallEnds(p) ==
  /\ job[p].op \in {"setProperty", "invokeService"} /\ job[p].at = "remote"
  /\ JobMoves(p, NoJob)
  /\ UNCHANGED regVars

\* The coordinator is built; the registry is empty; nothing is running.
LiveInit ==
  /\ TickInit
  /\ RegistryInit
  /\ job = [p \in Procs |-> NoJob]

InitLive == LiveInit /\ CipherIdle /\ EntryIdle

\* What caller p does once it has started.
Progress(p) ==
  \/ SlotLockGranted(p)
  \/ CallsRegistry(p)
  \/ RegistryLockGranted(p)
  \/ ConnectReturned(p)
  \/ \E x \in FetchErrors : ConnectRaised(p, x)
  \/ \E name \in DeviceNames : DeviceListReturns(p, name)
  \/ \E s \in TickSlots : \E o \in LiveOutcomes(s) : FetchEnds(p, o)
  \/ \E o \in LiveOutcomes("props") : RetryEnds(p, o)
  \/ CallEnds(p)

NextLive ==
  \/ \E p \in Procs : PollTick(p)
  \/ \E p \in Procs : setProperty(p)
  \/ \E p \in Procs, service \in Services : invokeService(p, service)
  \/ \E p \in Procs : Progress(p)

\* The event loop runs every coroutine that can run, and every remote call
\* ends.
LiveFairness == \A p \in Procs : WF_vars(Progress(p))

SpecLive == InitLive /\ [][NextLive]_vars /\ LiveFairness

\* ---------------------------------------------------------------------
\*  Properties of the calls against the registry (checked under SpecLive)
\* ---------------------------------------------------------------------

\* C24: when every remote call ends and the event loop is fair, every poll
\* tick, setProperty call and invokeService call that has started
\* completes: each caller is outside of every call again and again, so none
\* waits forever for a cache slot's lock or for the registry lock.
C24_EveryCallCompletes == \A p \in Procs : []<>(job[p].op = "none")

\* A tick waits for a cache slot's lock while the tick that holds it is
\* inside the registry, connecting under the registry lock.
C24_Witness ==
  \E p, q \in Procs :
    /\ job[p].at = "slot_lock"
    /\ Head(lock[tk[p].slot]) = q
    /\ job[q].at = "registry" /\ rpc[q] = "connecting"

====
